---- MODULE Spec2Model ----
(***************************************************************************)
(* Real-time incident synchronisation: the WebSocket server of             *)
(* server/server.js (in-memory incident store, broadcast, tick timer) and  *)
(* the socket-owning hook useIncidentSocket (client reconciliation and     *)
(* interval negotiation), together with the page code that calls the hook. *)
(*                                                                         *)
(* An incident is a record with the fields incidentId, createdAt, stateId, *)
(* assignedTo and, when present, readings.  An identifier is the sequence  *)
(* of its characters.  A reading is the record [timestamp |-> n] where n   *)
(* is the position of its creation in the order of all createReading calls *)
(* (temperature and pressure are random draws and are not tracked here).   *)
(***************************************************************************)
EXTENDS Integers, Sequences, FiniteSets, TLC

(***************************************************************************)
(* Program constants                                                       *)
(***************************************************************************)
MAX_READINGS == 24
DEFAULT_READING_INTERVAL_MS == 2000
MIN_READING_INTERVAL_MS == 250
PROTOCOL_VERSION == "1"
ClientInitialIntervalMs == 2000

(***************************************************************************)
(* Bounds of the exploration                                               *)
(***************************************************************************)
\* steps taken by the environment: connections, user operations, timer firings
MaxEvents == 3

\* longest incident list the reducer is given on its own
MaxLen == 3

Clients == {"c1", "c2"}

\* values the user can select for the reading cadence (100 is below the floor)
IntervalChoices == {100, 500, 2000}

\* null of a numeric ref (pendingIntervalRef)
Null == 0

(***************************************************************************)
(* Identifiers                                                             *)
(***************************************************************************)
Inc1001 == <<"i", "n", "c", "-", "1", "0", "0", "1">>
Inc1002 == <<"i", "n", "c", "-", "1", "0", "0", "2">>
Inc1003 == <<"i", "n", "c", "-", "1", "0", "0", "3">>
Inc1004 == <<"i", "n", "c", "-", "1", "0", "0", "4">>
\* identifiers typed into the create form: too short, fresh
ShortId == <<"a">>
FreshId == <<"n", "e", "w", "-", "1">>
\* incidents the user drags
DragIds == {Inc1001, FreshId}

PatternChars ==
  {"a", "b", "c", "d", "e", "f", "g", "h", "i", "j", "k", "l", "m",
   "n", "o", "p", "q", "r", "s", "t", "u", "v", "w", "x", "y", "z",
   "A", "B", "C", "D", "E", "F", "G", "H", "I", "J", "K", "L", "M",
   "N", "O", "P", "Q", "R", "S", "T", "U", "V", "W", "X", "Y", "Z",
   "0", "1", "2", "3", "4", "5", "6", "7", "8", "9", "-"}

\* the pattern without its minimum length, /^[a-z0-9-]{0,32}$/i
INCIDENT_ID_PATTERN_NoMinimum(id) ==
  /\ Len(id) <= 32
  /\ \A i \in 1..Len(id) : id[i] \in PatternChars

\* /^[a-z0-9-]{3,32}$/i .test(id)
INCIDENT_ID_PATTERN(id) ==
  /\ Len(id) >= 3
  /\ Len(id) <= 32
  /\ \A i \in 1..Len(id) : id[i] \in PatternChars

\* JavaScript's falsy values among those an optional string can take
Falsy(v) == v \in {"undefined", "null", ""}

(***************************************************************************)
(* Sequence helpers (Array.prototype.slice(-n), findIndex, some, map)      *)
(***************************************************************************)
\* the first n entries are kept instead of the last n
SliceLast_KeepsOldest(s, n) ==
  IF Len(s) <= n THEN s ELSE SubSeq(s, 1, n)

SliceLast(s, n) ==
  IF Len(s) <= n THEN s ELSE SubSeq(s, Len(s) - n + 1, Len(s))

\* findIndex: the first position holding id, 0 when there is none
FindIndex(list, id) ==
  IF \E i \in 1..Len(list) : list[i].incidentId = id
    THEN CHOOSE i \in 1..Len(list) :
           /\ list[i].incidentId = id
           /\ \A j \in 1..(i - 1) : list[j].incidentId # id
    ELSE 0

HasReadings(incident) == "readings" \in DOMAIN incident

\* incident.readings ?? []
ReadingsOf(incident) ==
  IF HasReadings(incident) THEN incident.readings ELSE <<>>

\* assignment to incident.readings (adds the field when it is missing)
WithReadings(incident, rs) ==
  [f \in (DOMAIN incident) \cup {"readings"} |->
     IF f = "readings" THEN rs ELSE incident[f]]

(***************************************************************************)
(* Reading generator and seed data                                         *)
(***************************************************************************)
\* createReading: the reading created when n readings were created before
createReading(n) == [timestamp |-> n + 1]

\* Number(x.toFixed(d)) on thousandths: the nearest multiple of step, the larger
\* one of two equally near
ToFixed(x, step) == ((x + step \div 2) \div step) * step

\* createReading with its numbers, in thousandths: previous is <<>> or holds the
\* previous reading, r the four values of Math.random() (thousandths of [0, 1))
createReadingNumbers(previous, n, r) ==
  LET temperatureBase == IF previous # <<>> THEN previous[1].temperature
                         ELSE 68000 + r.temperatureBase * 12
      pressureBase == IF previous # <<>> THEN previous[1].pressure
                      ELSE 18000 + r.pressureBase * 6
  IN  [timestamp |-> createReading(n).timestamp,
       temperature |-> ToFixed(temperatureBase + (r.temperature * 4 - 2000), 100),
       pressure |-> ToFixed(pressureBase + (r.pressure * 2 - 1000), 10)]

\* seedReadings: incident number k gets MAX_READINGS consecutive readings
SeedReadingsOf(k) ==
  [i \in 1..MAX_READINGS |-> createReading((k - 1) * MAX_READINGS + i - 1)]

SeedIncidents ==
  << [incidentId |-> Inc1001, createdAt |-> "now-12m", assignedTo |-> "undefined",
      stateId |-> "OPEN", readings |-> SeedReadingsOf(1)],
     [incidentId |-> Inc1002, createdAt |-> "now-42m", assignedTo |-> "user-2",
      stateId |-> "OPEN", readings |-> SeedReadingsOf(2)],
     [incidentId |-> Inc1003, createdAt |-> "now-90m", assignedTo |-> "user-1",
      stateId |-> "OPEN", readings |-> SeedReadingsOf(3)],
     [incidentId |-> Inc1004, createdAt |-> "now-180m", assignedTo |-> "user-1",
      stateId |-> "CLOSED", readings |-> SeedReadingsOf(4)] >>

(***************************************************************************)
(* Message contract                                                        *)
(***************************************************************************)
\* a frame on the wire: text that is JSON (with its parsed value) or not
JsonFrame(v) == [json |-> TRUE, value |-> v]
NonJsonFrame == [json |-> FALSE, value |-> [text |-> "not json"]]

IsIncident(v) ==
  {"incidentId", "createdAt", "stateId"} \subseteq DOMAIN v

\* ClientMessageSchema.safeParse(message).success
ClientMessageSchema(v) ==
  /\ "type" \in DOMAIN v
  /\ \/ /\ v.type \in {"addIncident", "updateIncident"}
        /\ "incident" \in DOMAIN v
        /\ IsIncident(v.incident)
     \/ /\ v.type = "setReadingInterval"
        /\ "intervalMs" \in DOMAIN v
        /\ v.intervalMs \in Int

\* the five sub-lists of a catalog
CatalogFields == {"escalationLevels", "incidentTypes", "sites", "assets", "alarms"}

\* emptyCatalog of the hook
emptyCatalog == [f \in CatalogFields |-> <<>>]

\* the reference data of the server, every entry by its id
ServerCatalog ==
  [escalationLevels |-> <<"esc-1", "esc-2">>,
   incidentTypes |-> <<"type-electrical", "type-cooling", "type-controls",
                       "type-facilities">>,
   sites |-> <<"site-1", "site-2">>,
   assets |-> <<"asset-1", "asset-2", "asset-3", "asset-4">>,
   alarms |-> <<"alarm-100", "alarm-220", "alarm-310", "alarm-420">>]

\* CatalogSchema: an object in which each of the five arrays is required
CatalogSchema(v) == CatalogFields \subseteq DOMAIN v

\* { ...emptyCatalog, ...payload.catalog }
MergeCatalog(v) ==
  [f \in CatalogFields \cup DOMAIN v |-> IF f \in DOMAIN v THEN v[f] ELSE emptyCatalog[f]]

InitMsg(list) ==
  [type |-> "init", protocolVersion |-> PROTOCOL_VERSION, incidents |-> list,
   catalog |-> ServerCatalog]
IncidentAddedMsg(incident) == [type |-> "incidentAdded", incident |-> incident]
IncidentUpdatedMsg(incident) == [type |-> "incidentUpdated", incident |-> incident]
ReadingIntervalUpdatedMsg(ms) == [type |-> "readingIntervalUpdated", intervalMs |-> ms]
ErrorMsg(code, message) == [type |-> "error", code |-> code, message |-> message]

\* ServerMessageSchema.safeParse(parsed).success
ServerMessageSchema(v) ==
  /\ "type" \in DOMAIN v
  /\ \/ /\ v.type = "init"
        /\ "incidents" \in DOMAIN v =>
             \A i \in 1..Len(v.incidents) : IsIncident(v.incidents[i])
        /\ "catalog" \in DOMAIN v => CatalogSchema(v.catalog)
     \/ /\ v.type \in {"incidentAdded", "incidentUpdated"}
        /\ "incident" \in DOMAIN v
        /\ IsIncident(v.incident)
     \/ /\ v.type = "readingIntervalUpdated"
        /\ "intervalMs" \in DOMAIN v
        /\ v.intervalMs \in Int
     \/ v.type = "error"

\* JSON values a client can send that do not match ClientMessageSchema
InvalidValues == { [type |-> "removeIncident", incidentId |-> Inc1001] }

(***************************************************************************)
(* State                                                                   *)
(***************************************************************************)
VARIABLES
  incidents,          \* server: the store, head first
  readingIntervalMs,  \* server: the global tick period
  readingIntervalId,  \* server: id of the timer the server holds, Null if none
  timers,             \* server: the interval timers that are running
  clock,              \* server: number of readings created so far
  wssClients,         \* server: sockets in wss.clients (all of them OPEN)
  toClient,           \* frames sent by the server, not yet handled by the client
  toServer,           \* frames sent by a client, not yet handled by the server
  readyState,         \* client: state of the socket of the hook
  localIncidents,     \* client: the hook's incidents
  connectionStatus,   \* client: the hook's connectionStatus
  catalog,            \* client: the hook's catalog
  clientIntervalMs,   \* client: the hook's readingIntervalMs
  lastError,          \* client: the hook's lastError
  pendingIntervalRef, \* client: requested interval waiting for its ack
  intervalTimeoutRef, \* client: the timeout id the ref holds, or Null
  timeoutArmed,       \* client: ids of the 1500ms timeouts that can still fire
  suppressIntervalRequestRef, \* client: skip the next interval effect
  page,               \* client: IncidentsPage as last rendered: its filters and columns
  initsSent,          \* history: init messages sent on the current connection
  firstSent,          \* history: type of the first message sent on it
  tickAppended,       \* history: timestamps of the readings appended by ticks
  lostRequest,        \* history: the connection closed over an unhandled interval request
  events              \* history: number of steps of the environment so far

serverVars == <<incidents, readingIntervalMs, readingIntervalId, timers, clock>>
netVars == <<wssClients, toClient, toServer>>
clientVars == <<readyState, localIncidents, connectionStatus, catalog, clientIntervalMs,
                lastError, pendingIntervalRef, intervalTimeoutRef, timeoutArmed,
                suppressIntervalRequestRef>>
pageVars == <<page>>
histVars == <<initsSent, firstSent, tickAppended, lostRequest, events>>
vars == <<serverVars, netVars, clientVars, pageVars, histVars>>

\* lastError values
NoError == "null"
NotConfirmedError == "Server did not confirm the reading interval change."
DiscrepancyError == "Server interval is not the expected one."
ProtocolError == "Protocol mismatch."
ShapeError == "Received an unexpected message shape from the server."
InvalidMessageText == "Message did not match the expected schema."
InvalidIdText == "Incident ID must be 3-32 characters: letters, numbers, or hyphens."

(***************************************************************************)
(* Server: sending                                                         *)
(***************************************************************************)
\* a loop over wss.clients that stops after the first socket
Broadcast_FirstOnly(queues, msgs) ==
  [c \in Clients |->
     IF c \in wssClients /\ c = (CHOOSE d \in wssClients : TRUE)
       THEN queues[c] \o msgs ELSE queues[c]]

\* the messages go to every socket the server ever knew, closed ones included
Broadcast_ClosedToo(queues, msgs) == [c \in Clients |-> queues[c] \o msgs]

\* broadcast: every client of wss.clients gets the messages, in order
Broadcast(queues, msgs) ==
  [c \in Clients |-> IF c \in wssClients THEN queues[c] \o msgs ELSE queues[c]]

\* sendError / socket.send: one socket gets the message
SendTo(queues, c, msg) == [queues EXCEPT ![c] = Append(@, msg)]

\* history of what each connection was sent first
NoteFirst(old, new) ==
  [c \in Clients |->
     IF firstSent[c] = "none" /\ Len(new[c]) > Len(old[c])
       THEN new[c][Len(old[c]) + 1].type
       ELSE firstSent[c]]

\* history of the init messages each connection was sent
NoteInits(old, new) ==
  [c \in Clients |->
     initsSent[c] +
       Cardinality({i \in (Len(old[c]) + 1)..Len(new[c]) : new[c][i].type = "init"})]

NoteSent ==
  /\ firstSent' = NoteFirst(toClient, toClient')
  /\ initsSent' = NoteInits(toClient, toClient')

\* startReadingInterval: a new running timer with the current period; setInterval
\* returns a timer no earlier call returned (last: the timer returned before)
StartReadingInterval(last, period) == [id |-> last + 1, period |-> period]

(***************************************************************************)
(* Server: wss.on('connection')                                            *)
(***************************************************************************)
\* the socket is registered but the snapshot is not sent
ServerAccept_NoInit(c) ==
  /\ readyState[c] = "CONNECTING"
  /\ c \notin wssClients
  /\ events < MaxEvents
  /\ wssClients' = wssClients \cup {c}
  /\ events' = events + 1
  /\ UNCHANGED <<serverVars, toClient, toServer, clientVars, initsSent, firstSent,
                 tickAppended, lostRequest, pageVars>>

ServerAccept(c) ==
  /\ readyState[c] = "CONNECTING"
  /\ c \notin wssClients
  /\ events < MaxEvents
  /\ wssClients' = wssClients \cup {c}
  /\ toClient' = [toClient EXCEPT ![c] = <<InitMsg(incidents)>>]
  /\ NoteSent
  /\ events' = events + 1
  /\ UNCHANGED <<serverVars, toServer, clientVars, tickAppended, lostRequest, pageVars>>

(***************************************************************************)
(* Server: socket.on('message')                                            *)
(***************************************************************************)
HasFrame(c) == c \in wssClients /\ toServer[c] # <<>>

\* JSON.parse throws: return
ServerDropNonJson(c) ==
  /\ HasFrame(c)
  /\ ~Head(toServer[c]).json
  /\ toServer' = [toServer EXCEPT ![c] = Tail(@)]
  /\ UNCHANGED <<serverVars, wssClients, toClient, clientVars, histVars, pageVars>>

\* the rejection answered with broadcast instead of sendError
ServerRejectMessage_Broadcast(c) ==
  /\ HasFrame(c)
  /\ Head(toServer[c]).json
  /\ ~ClientMessageSchema(Head(toServer[c]).value)
  /\ toServer' = [toServer EXCEPT ![c] = Tail(@)]
  /\ toClient' = Broadcast(toClient, <<ErrorMsg("INVALID_MESSAGE", InvalidMessageText)>>)
  /\ NoteSent
  /\ UNCHANGED <<serverVars, wssClients, clientVars, tickAppended, lostRequest, events, pageVars>>

\* safeParse fails: sendError(socket, 'INVALID_MESSAGE', ...)
ServerRejectMessage(c) ==
  /\ HasFrame(c)
  /\ Head(toServer[c]).json
  /\ ~ClientMessageSchema(Head(toServer[c]).value)
  /\ toServer' = [toServer EXCEPT ![c] = Tail(@)]
  /\ toClient' = SendTo(toClient, c, ErrorMsg("INVALID_MESSAGE", InvalidMessageText))
  /\ NoteSent
  /\ UNCHANGED <<serverVars, wssClients, clientVars, tickAppended, lostRequest, events, pageVars>>

ValidFrame(c, type) ==
  /\ HasFrame(c)
  /\ Head(toServer[c]).json
  /\ ClientMessageSchema(Head(toServer[c]).value)
  /\ Head(toServer[c]).value.type = type

\* addIncident with an id that fails the pattern
ServerRejectIncidentId(c) ==
  /\ ValidFrame(c, "addIncident")
  /\ ~INCIDENT_ID_PATTERN(Head(toServer[c]).value.incident.incidentId)
  /\ toServer' = [toServer EXCEPT ![c] = Tail(@)]
  /\ toClient' = SendTo(toClient, c, ErrorMsg("INVALID_INCIDENT_ID", InvalidIdText))
  /\ NoteSent
  /\ UNCHANGED <<serverVars, wssClients, clientVars, tickAppended, lostRequest, events, pageVars>>

\* every added incident gets one seed reading in place of its readings
AddStored_AlwaysSeed(incident, n) == WithReadings(incident, <<createReading(n)>>)

\* the incident as addIncident stores it
AddStored(incident, n) ==
  IF ~HasReadings(incident) \/ Len(incident.readings) = 0
    THEN WithReadings(incident, <<createReading(n)>>)
    ELSE incident

\* addIncident with a valid id
ServerAddIncident(c) ==
  /\ ValidFrame(c, "addIncident")
  /\ LET incident == Head(toServer[c]).value.incident
         stored == AddStored(incident, clock)
     IN  /\ INCIDENT_ID_PATTERN(incident.incidentId)
         /\ incidents' = <<stored>> \o incidents
         /\ clock' = IF stored = incident THEN clock ELSE clock + 1
         /\ toClient' = Broadcast(toClient, <<IncidentAddedMsg(stored)>>)
  /\ toServer' = [toServer EXCEPT ![c] = Tail(@)]
  /\ NoteSent
  /\ UNCHANGED <<readingIntervalMs, readingIntervalId, timers, wssClients,
                 clientVars, tickAppended, lostRequest, events, pageVars>>

\* the store is cut down to the updated incident
Upsert_KeepsOnlyUpdated(list, incident) == <<incident>>

\* the incident is put in front whether or not the store holds its id
Upsert_AlwaysPrepend(list, incident) == <<incident>> \o list

\* the store after updateIncident
Upsert(list, incident) ==
  LET index == FindIndex(list, incident.incidentId)
  IN  IF index > 0 THEN [list EXCEPT ![index] = incident]
                   ELSE <<incident>> \o list

ServerUpdateIncident(c) ==
  /\ ValidFrame(c, "updateIncident")
  /\ LET incident == Head(toServer[c]).value.incident
     IN  /\ incidents' = Upsert(incidents, incident)
         /\ toClient' = Broadcast(toClient, <<IncidentUpdatedMsg(incident)>>)
  /\ toServer' = [toServer EXCEPT ![c] = Tail(@)]
  /\ NoteSent
  /\ UNCHANGED <<readingIntervalMs, readingIntervalId, timers, clock, wssClients,
                 clientVars, tickAppended, lostRequest, events, pageVars>>

\* the requested value is taken as it comes
Max_Unclamped(a, b) == b

\* Math.max
Max(a, b) == IF a >= b THEN a ELSE b

\* clearInterval is never called
ClearInterval_Leak(running, id) == running

\* the running timers once the timer the server holds is cleared
ClearInterval(running, id) == {t \in running : t.id # id}

ServerSetReadingInterval(c) ==
  /\ ValidFrame(c, "setReadingInterval")
  /\ LET nextInterval == Max(MIN_READING_INTERVAL_MS, Head(toServer[c]).value.intervalMs)
         kept == IF readingIntervalId # Null
                   THEN ClearInterval(timers, readingIntervalId) ELSE timers
         started == StartReadingInterval(readingIntervalId, nextInterval)
     IN  /\ readingIntervalMs' = nextInterval
         /\ timers' = kept \cup {started}
         /\ readingIntervalId' = started.id
         /\ toClient' = Broadcast(toClient, <<ReadingIntervalUpdatedMsg(nextInterval)>>)
  /\ toServer' = [toServer EXCEPT ![c] = Tail(@)]
  /\ NoteSent
  /\ UNCHANGED <<incidents, clock, wssClients, clientVars, tickAppended, lostRequest, events, pageVars>>

(***************************************************************************)
(* Server: the callback of the interval timer                              *)
(***************************************************************************)
\* the append without the slice(-MAX_READINGS)
Advance_NoTruncate(incident, n) ==
  WithReadings(incident, Append(ReadingsOf(incident), createReading(n)))

\* an incident after the tick callback, when n readings were created before
Advance(incident, n) ==
  WithReadings(incident,
               SliceLast(Append(ReadingsOf(incident), createReading(n)), MAX_READINGS))

AdvanceAll(list, n) == [i \in 1..Len(list) |-> Advance(list[i], n + i - 1)]

Tick(t) ==
  /\ t \in timers
  /\ events < MaxEvents
  /\ incidents' = AdvanceAll(incidents, clock)
  /\ clock' = clock + Len(incidents)
  /\ toClient' = Broadcast(toClient,
                   [i \in 1..Len(incidents) |-> IncidentUpdatedMsg(incidents'[i])])
  /\ NoteSent
  /\ tickAppended' = tickAppended \cup {createReading(clock + i - 1).timestamp :
                                           i \in 1..Len(incidents)}
  /\ events' = events + 1
  /\ UNCHANGED <<readingIntervalMs, readingIntervalId, timers, wssClients, toServer,
                 clientVars, lostRequest, pageVars>>

\* ticks of a long run: the timer goes on firing after the users have stopped
MaxTicks == 25
TickLimit == Len(SeedIncidents) * MAX_READINGS + MaxTicks * (Len(SeedIncidents) + 1)

\* the users have stopped and the server has handled all they sent
UsersDone ==
  /\ events = MaxEvents
  /\ \A c \in Clients : toServer[c] = <<>>
  /\ \A c \in wssClients : readyState[c] = "OPEN"

\* the tick callback of a server that is left running
ScheduledTick(t) ==
  /\ t \in timers
  /\ UsersDone
  /\ clock < TickLimit
  /\ incidents' = AdvanceAll(incidents, clock)
  /\ clock' = clock + Len(incidents)
  /\ toClient' = Broadcast(toClient,
                   [i \in 1..Len(incidents) |-> IncidentUpdatedMsg(incidents'[i])])
  /\ NoteSent
  /\ tickAppended' = tickAppended \cup {createReading(clock + i - 1).timestamp :
                                           i \in 1..Len(incidents)}
  /\ UNCHANGED <<readingIntervalMs, readingIntervalId, timers, wssClients, toServer,
                 clientVars, lostRequest, events, pageVars>>

(***************************************************************************)
(* Client: the reducer of the hook                                         *)
(***************************************************************************)
\* state.map(item => item.incidentId === incident.incidentId ? incident : item)
MapReplace(state, incident) ==
  [i \in 1..Len(state) |->
     IF state[i].incidentId = incident.incidentId THEN incident ELSE state[i]]

\* an add is handled like an update: an incident with a known id is replaced
incidentsReducer_AddReplaces(state, action) ==
  IF action.type = "init" THEN action.incidents
  ELSE IF ~(\E i \in 1..Len(state) : state[i].incidentId = action.incident.incidentId)
    THEN <<action.incident>> \o state
    ELSE MapReplace(state, action.incident)

\* an update is handled like an add
incidentsReducer_UpdatePrepends(state, action) ==
  IF action.type = "init" THEN action.incidents ELSE <<action.incident>> \o state

incidentsReducer(state, action) ==
  IF action.type = "init" THEN action.incidents
  ELSE IF action.type = "add" THEN <<action.incident>> \o state
  ELSE IF ~(\E i \in 1..Len(state) : state[i].incidentId = action.incident.incidentId)
    THEN <<action.incident>> \o state
    ELSE MapReplace(state, action.incident)

(***************************************************************************)
(* Client: interval request and its timeout                                *)
(***************************************************************************)
\* clearIntervalTimeout(): the timeouts left armed once the one the ref names is cleared
ClearedTimeouts(c) ==
  IF intervalTimeoutRef[c] # Null THEN timeoutArmed[c] \ {intervalTimeoutRef[c]}
                                  ELSE timeoutArmed[c]

\* window.setTimeout returns an id no armed timeout has
NewTimeoutId(armed) == CHOOSE n \in 1..(Cardinality(armed) + 1) : n \notin armed

\* requestServerInterval that arms its timeout without clearing the one before
RequestServerInterval_NoClear(c, nextInterval) ==
  IF readyState'[c] = "OPEN"
    THEN /\ pendingIntervalRef' = [pendingIntervalRef EXCEPT ![c] = nextInterval]
         /\ intervalTimeoutRef' = [intervalTimeoutRef EXCEPT ![c] =
              NewTimeoutId(timeoutArmed[c])]
         /\ timeoutArmed' = [timeoutArmed EXCEPT ![c] = @ \cup {NewTimeoutId(@)}]
         /\ toServer' = [toServer EXCEPT ![c] =
              Append(@, JsonFrame([type |-> "setReadingInterval",
                                   intervalMs |-> nextInterval]))]
    ELSE UNCHANGED <<pendingIntervalRef, intervalTimeoutRef, timeoutArmed, toServer>>

\* requestServerInterval(nextInterval) on an OPEN socket, else nothing
RequestServerInterval(c, nextInterval) ==
  IF readyState'[c] = "OPEN"
    THEN /\ pendingIntervalRef' = [pendingIntervalRef EXCEPT ![c] = nextInterval]
         /\ intervalTimeoutRef' = [intervalTimeoutRef EXCEPT ![c] =
              NewTimeoutId(ClearedTimeouts(c))]
         /\ timeoutArmed' = [timeoutArmed EXCEPT ![c] =
              ClearedTimeouts(c) \cup {NewTimeoutId(ClearedTimeouts(c))}]
         /\ toServer' = [toServer EXCEPT ![c] =
              Append(@, JsonFrame([type |-> "setReadingInterval",
                                   intervalMs |-> nextInterval]))]
    ELSE UNCHANGED <<pendingIntervalRef, intervalTimeoutRef, timeoutArmed, toServer>>

\* the callback of the 1500ms timeout
TimeoutCallback(c) ==
  /\ \E id \in timeoutArmed[c] : timeoutArmed' = [timeoutArmed EXCEPT ![c] = @ \ {id}]
  /\ lastError' = [lastError EXCEPT ![c] = NotConfirmedError]
  /\ UNCHANGED <<serverVars, netVars, readyState, localIncidents, connectionStatus, catalog,
                 clientIntervalMs, pendingIntervalRef, intervalTimeoutRef,
                 suppressIntervalRequestRef, initsSent, firstSent, tickAppended,
                 lostRequest, pageVars>>

\* the timeout expires while the environment is still acting
TimeoutFires(c) ==
  /\ events < MaxEvents
  /\ events' = events + 1
  /\ TimeoutCallback(c)

\* the timeout expires after the last step of the environment
TimeoutFiresLate(c) ==
  /\ events = MaxEvents
  /\ UNCHANGED events
  /\ TimeoutCallback(c)

(***************************************************************************)
(* Client: socket events                                                   *)
(***************************************************************************)
\* socket 'open': connected, error cleared, the interval of the first render requested
ClientOpen(c) ==
  /\ readyState[c] = "CONNECTING"
  /\ c \in wssClients
  /\ readyState' = [readyState EXCEPT ![c] = "OPEN"]
  /\ connectionStatus' = [connectionStatus EXCEPT ![c] = "connected"]
  /\ lastError' = [lastError EXCEPT ![c] = NoError]
  /\ RequestServerInterval(c, ClientInitialIntervalMs)
  /\ UNCHANGED <<serverVars, wssClients, toClient, localIncidents, catalog, clientIntervalMs,
                 suppressIntervalRequestRef, histVars, pageVars>>

HasMsg(c, type) ==
  /\ readyState[c] = "OPEN"
  /\ toClient[c] # <<>>
  /\ ServerMessageSchema(Head(toClient[c]))
  /\ Head(toClient[c]).type = type

Consume(c) == toClient' = [toClient EXCEPT ![c] = Tail(@)]

\* lastError after an init message
InitLastError(old, msg) ==
  IF /\ "protocolVersion" \in DOMAIN msg
     /\ ~Falsy(msg.protocolVersion)
     /\ msg.protocolVersion # PROTOCOL_VERSION
    THEN ProtocolError ELSE old

\* a frame for the client whose data is not JSON (it has no type of its own)
NonJsonText == [type |-> "", raw |-> TRUE]
IsRaw(m) == "raw" \in DOMAIN m

\* JSON.parse throws: the handler returns and the error is shown all the same
ClientDropNonJson_Notifies(c) ==
  /\ readyState[c] = "OPEN"
  /\ toClient[c] # <<>>
  /\ IsRaw(Head(toClient[c]))
  /\ Consume(c)
  /\ lastError' = [lastError EXCEPT ![c] = ShapeError]
  /\ UNCHANGED <<serverVars, wssClients, toServer, readyState, localIncidents,
                 connectionStatus, catalog, clientIntervalMs, pendingIntervalRef,
                 intervalTimeoutRef, timeoutArmed, suppressIntervalRequestRef, histVars, pageVars>>

\* JSON.parse throws: the handler returns
ClientDropNonJson(c) ==
  /\ readyState[c] = "OPEN"
  /\ toClient[c] # <<>>
  /\ IsRaw(Head(toClient[c]))
  /\ Consume(c)
  /\ UNCHANGED <<serverVars, wssClients, toServer, clientVars, histVars, pageVars>>

\* safeParse fails: the error is shown and nothing else is done with the message
ClientRejectMessage(c) ==
  /\ readyState[c] = "OPEN"
  /\ toClient[c] # <<>>
  /\ ~IsRaw(Head(toClient[c]))
  /\ ~ServerMessageSchema(Head(toClient[c]))
  /\ Consume(c)
  /\ lastError' = [lastError EXCEPT ![c] = ShapeError]
  /\ UNCHANGED <<serverVars, wssClients, toServer, readyState, localIncidents,
                 connectionStatus, catalog, clientIntervalMs, pendingIntervalRef,
                 intervalTimeoutRef, timeoutArmed, suppressIntervalRequestRef, histVars, pageVars>>

ClientInit(c) ==
  /\ HasMsg(c, "init")
  /\ Consume(c)
  /\ LET msg == Head(toClient[c])
     IN  /\ lastError' = [lastError EXCEPT ![c] = InitLastError(@, msg)]
         /\ localIncidents' = [localIncidents EXCEPT ![c] =
              IF "incidents" \in DOMAIN msg
                THEN incidentsReducer(@, [type |-> "init", incidents |-> msg.incidents])
                ELSE @]
         /\ catalog' = [catalog EXCEPT ![c] =
              IF "catalog" \in DOMAIN msg THEN MergeCatalog(msg.catalog) ELSE @]
  /\ UNCHANGED <<serverVars, wssClients, toServer, readyState, connectionStatus,
                 clientIntervalMs, pendingIntervalRef, intervalTimeoutRef, timeoutArmed,
                 suppressIntervalRequestRef, histVars, pageVars>>

ClientIncidentAdded(c) ==
  /\ HasMsg(c, "incidentAdded")
  /\ Consume(c)
  /\ localIncidents' = [localIncidents EXCEPT ![c] =
       incidentsReducer(@, [type |-> "add", incident |-> Head(toClient[c]).incident])]
  /\ UNCHANGED <<serverVars, wssClients, toServer, readyState, connectionStatus, catalog,
                 clientIntervalMs, lastError, pendingIntervalRef, intervalTimeoutRef,
                 timeoutArmed, suppressIntervalRequestRef, histVars, pageVars>>

ClientIncidentUpdated(c) ==
  /\ HasMsg(c, "incidentUpdated")
  /\ Consume(c)
  /\ localIncidents' = [localIncidents EXCEPT ![c] =
       incidentsReducer(@, [type |-> "update", incident |-> Head(toClient[c]).incident])]
  /\ UNCHANGED <<serverVars, wssClients, toServer, readyState, connectionStatus, catalog,
                 clientIntervalMs, lastError, pendingIntervalRef, intervalTimeoutRef,
                 timeoutArmed, suppressIntervalRequestRef, histVars, pageVars>>

\* every readingIntervalUpdated clears the error, whatever was pending
AckLastError_AlwaysClear(pendingInterval, intervalMs) == NoError

\* an interval nobody on this client asked for is reported like a discrepancy
AckLastError_WarnsUnrequested(pendingInterval, intervalMs) ==
  IF pendingInterval = Null \/ intervalMs # pendingInterval THEN DiscrepancyError
  ELSE NoError

\* lastError after readingIntervalUpdated, given the pending request it met
AckLastError(pendingInterval, intervalMs) ==
  IF pendingInterval = Null THEN NoError
  ELSE IF intervalMs # pendingInterval THEN DiscrepancyError
  ELSE NoError

\* does the handler call setReadingIntervalMs(intervalMs)
AckSetsInterval(pendingInterval, intervalMs, current) ==
  IF pendingInterval = Null THEN intervalMs # current
  ELSE intervalMs # pendingInterval

\* the handler never raises the flag
AckSuppress_NeverSet(setCalled, flag) == flag

\* suppressIntervalRequestRef.current after the handler, before any effect runs
AckSuppress(setCalled, flag) == IF setCalled THEN TRUE ELSE flag

ClientReadingIntervalUpdated(c) ==
  /\ HasMsg(c, "readingIntervalUpdated")
  /\ Consume(c)
  /\ LET intervalMs == Head(toClient[c]).intervalMs
         pendingInterval == pendingIntervalRef[c]
         setCalled == AckSetsInterval(pendingInterval, intervalMs, clientIntervalMs[c])
         changed == setCalled /\ intervalMs # clientIntervalMs[c]
         flag == AckSuppress(setCalled, suppressIntervalRequestRef[c])
     IN  /\ clientIntervalMs' = [clientIntervalMs EXCEPT ![c] =
              IF setCalled THEN intervalMs ELSE @]
         /\ lastError' = [lastError EXCEPT ![c] = AckLastError(pendingInterval, intervalMs)]
         /\ UNCHANGED readyState
         \* the effect on [readingIntervalMs] runs when the state changed
         /\ IF changed /\ ~flag
              THEN /\ RequestServerInterval(c, intervalMs)
                   /\ UNCHANGED suppressIntervalRequestRef
              ELSE \* clearIntervalTimeout, pendingIntervalRef.current = null
                   /\ timeoutArmed' = [timeoutArmed EXCEPT ![c] = ClearedTimeouts(c)]
                   /\ intervalTimeoutRef' = [intervalTimeoutRef EXCEPT ![c] = Null]
                   /\ pendingIntervalRef' = [pendingIntervalRef EXCEPT ![c] = Null]
                   /\ suppressIntervalRequestRef' = [suppressIntervalRequestRef EXCEPT ![c] =
                        IF changed THEN FALSE ELSE flag]
                   /\ UNCHANGED toServer
  /\ UNCHANGED <<serverVars, wssClients, localIncidents, connectionStatus, catalog, histVars, pageVars>>

ClientError(c) ==
  /\ HasMsg(c, "error")
  /\ Consume(c)
  /\ lastError' = [lastError EXCEPT ![c] =
       IF "message" \in DOMAIN Head(toClient[c])
         THEN Head(toClient[c]).message ELSE "Unexpected server error."]
  /\ UNCHANGED <<serverVars, wssClients, toServer, readyState, localIncidents,
                 connectionStatus, catalog, clientIntervalMs, pendingIntervalRef,
                 intervalTimeoutRef, timeoutArmed, suppressIntervalRequestRef, histVars, pageVars>>

\* frames of a queue that ask for an interval change
HasIntervalRequest(q) ==
  \E i \in 1..Len(q) : q[i].json /\ q[i].value.type = "setReadingInterval"

(***************************************************************************)
(* Client: IncidentsPage and its filter (logic/incidentFilters.ts)         *)
(***************************************************************************)
INCIDENT_STATES == [OPEN |-> "OPEN", CLOSED |-> "CLOSED"]

\* incident.incidentTypeIds ?? []
IncidentTypesOf(incident) ==
  IF "incidentTypeIds" \in DOMAIN incident THEN incident.incidentTypeIds ELSE <<>>

\* array.includes(x)
Includes(s, x) == \E k \in 1..Len(s) : s[k] = x

\* the filter controls: escalation level, then incident types
matchesFilter(incident, escalationLevelId, incidentTypeIds) ==
  IF ~Falsy(escalationLevelId) /\ incident.escalationLevelId # escalationLevelId
    THEN FALSE
  ELSE IF Len(incidentTypeIds) > 0
            /\ ~\E k \in 1..Len(incidentTypeIds) :
                  Includes(IncidentTypesOf(incident), incidentTypeIds[k])
    THEN FALSE
  ELSE TRUE

\* a bucket rule whose 'active' takes every open incident
InBucket_ActiveAnyOpen(incident, type) ==
  IF type = "new"
    THEN incident.stateId = INCIDENT_STATES.OPEN /\ Falsy(incident.assignedTo)
  ELSE IF type = "active"
    THEN incident.stateId = INCIDENT_STATES.OPEN
  ELSE incident.stateId = INCIDENT_STATES.CLOSED

\* the bucket rule of one incident that passed the filter controls
InBucket(incident, type) ==
  IF type = "new"
    THEN incident.stateId = INCIDENT_STATES.OPEN /\ Falsy(incident.assignedTo)
  ELSE IF type = "active"
    THEN incident.stateId = INCIDENT_STATES.OPEN /\ ~Falsy(incident.assignedTo)
  ELSE incident.stateId = INCIDENT_STATES.CLOSED

getIncidentsByType(list, type, escalationLevelId, incidentTypeIds) ==
  LET Keep(incident) ==
        /\ matchesFilter(incident, escalationLevelId, incidentTypeIds)
        /\ InBucket(incident, type)
  IN  SelectSeq(list, Keep)

\* the page before it is shown
NotRendered == [rendered |-> FALSE]

\* selectedIncidentType ? [selectedIncidentType] : []
SelectedIncidentTypeIds(selectedIncidentType) ==
  IF Falsy(selectedIncidentType) THEN <<>> ELSE <<selectedIncidentType>>

\* a render of the page with the filters the user chose: the three memoized lists
RenderedPage(list, selectedEscalation, selectedIncidentType) ==
  LET ids == SelectedIncidentTypeIds(selectedIncidentType)
  IN  [rendered |-> TRUE,
       selectedEscalation |-> selectedEscalation,
       selectedIncidentType |-> selectedIncidentType,
       filteredNew |-> getIncidentsByType(list, "new", selectedEscalation, ids),
       filteredActive |-> getIncidentsByType(list, "active", selectedEscalation, ids),
       filteredCompleted |-> getIncidentsByType(list, "completed", selectedEscalation, ids)]

\* the connection ends: socket 'close' on the client, the server forgets the socket
Disconnect(c) ==
  /\ readyState[c] \in {"CONNECTING", "OPEN"}
  /\ events < MaxEvents
  /\ events' = events + 1
  /\ readyState' = [readyState EXCEPT ![c] = "CLOSED"]
  /\ connectionStatus' = [connectionStatus EXCEPT ![c] = "disconnected"]
  /\ wssClients' = wssClients \ {c}
  /\ toClient' = [toClient EXCEPT ![c] = <<>>]
  /\ toServer' = [toServer EXCEPT ![c] = <<>>]
  /\ initsSent' = [initsSent EXCEPT ![c] = 0]
  /\ firstSent' = [firstSent EXCEPT ![c] = "none"]
  /\ lostRequest' = [lostRequest EXCEPT ![c] = HasIntervalRequest(toServer[c])]
  /\ UNCHANGED <<serverVars, localIncidents, catalog, clientIntervalMs, lastError,
                 pendingIntervalRef, intervalTimeoutRef, timeoutArmed,
                 suppressIntervalRequestRef, tickAppended, pageVars>>

\* the page is loaded again: the hook mounts with its initial state and a new socket
Reload(c) ==
  /\ readyState[c] = "CLOSED"
  /\ events < MaxEvents
  /\ readyState' = [readyState EXCEPT ![c] = "CONNECTING"]
  /\ localIncidents' = [localIncidents EXCEPT ![c] = <<>>]
  /\ catalog' = [catalog EXCEPT ![c] = emptyCatalog]
  /\ clientIntervalMs' = [clientIntervalMs EXCEPT ![c] = ClientInitialIntervalMs]
  /\ lastError' = [lastError EXCEPT ![c] = NoError]
  /\ pendingIntervalRef' = [pendingIntervalRef EXCEPT ![c] = Null]
  /\ intervalTimeoutRef' = [intervalTimeoutRef EXCEPT ![c] = Null]
  /\ timeoutArmed' = [timeoutArmed EXCEPT ![c] = {}]
  /\ suppressIntervalRequestRef' = [suppressIntervalRequestRef EXCEPT ![c] = FALSE]
  /\ lostRequest' = [lostRequest EXCEPT ![c] = FALSE]
  /\ page' = [page EXCEPT ![c] = NotRendered]
  /\ UNCHANGED <<serverVars, netVars, connectionStatus, initsSent, firstSent,
                 tickAppended, events>>

(***************************************************************************)
(* Client: what the pages do with the hook                                 *)
(***************************************************************************)
\* readings a caller of sendIncident can put in the payload: too many of them
LongReadings == [i \in 1..(MAX_READINGS + 1) |-> [timestamp |-> 0]]

\* the incident built by the create form (no assignedTo, no readings)
NewIncident(id) ==
  [incidentId |-> id, createdAt |-> "now", assignedTo |-> "undefined", stateId |-> "OPEN"]

\* incidents handed to sendIncident
SendInputs ==
  { NewIncident(ShortId), NewIncident(Inc1001), NewIncident(FreshId),
    WithReadings(NewIncident(FreshId), <<>>),
    WithReadings(NewIncident(FreshId), LongReadings) }

\* sendIncident(incident); on a socket that is not OPEN it does nothing at all
UserSendIncident(c, incident) ==
  /\ events < MaxEvents
  /\ readyState[c] = "OPEN"
  /\ events' = events + 1
  /\ toServer' = [toServer EXCEPT ![c] =
       Append(@, JsonFrame([type |-> "addIncident", incident |-> incident]))]
  /\ UNCHANGED <<serverVars, wssClients, toClient, clientVars, initsSent, firstSent, tickAppended, lostRequest, pageVars>>

\* columns an incident is dropped on
DropTargets == {"new", "completed"}

\* handleDrop: the incident as the page changes it
Dropped(incident, target) ==
  [incident EXCEPT
     !.stateId = IF target = "completed" THEN "CLOSED" ELSE "OPEN",
     !.assignedTo = IF target = "new" THEN "null"
                    ELSE IF incident.assignedTo \in {"undefined", "null"} THEN "user-1"
                    ELSE incident.assignedTo]

\* updateIncident that writes to the socket whatever its readyState
UserDropIncident_AlwaysSends(c, id, target) ==
  /\ events < MaxEvents
  /\ FindIndex(localIncidents[c], id) > 0
  /\ events' = events + 1
  /\ LET updated == Dropped(localIncidents[c][FindIndex(localIncidents[c], id)], target)
     IN  /\ localIncidents' = [localIncidents EXCEPT ![c] =
                incidentsReducer(@, [type |-> "update", incident |-> updated])]
         /\ toServer' = [toServer EXCEPT ![c] =
              Append(@, JsonFrame([type |-> "updateIncident", incident |-> updated]))]
  /\ UNCHANGED <<serverVars, wssClients, toClient, readyState, connectionStatus, catalog,
                 clientIntervalMs, lastError, pendingIntervalRef, intervalTimeoutRef,
                 timeoutArmed, suppressIntervalRequestRef, initsSent, firstSent, tickAppended, lostRequest, pageVars>>

\* handleDrop(target, incidentId) followed by updateIncident(updated)
UserDropIncident(c, id, target) ==
  /\ events < MaxEvents
  /\ FindIndex(localIncidents[c], id) > 0
  /\ events' = events + 1
  /\ LET updated == Dropped(localIncidents[c][FindIndex(localIncidents[c], id)], target)
     IN  /\ localIncidents' = [localIncidents EXCEPT ![c] =
                incidentsReducer(@, [type |-> "update", incident |-> updated])]
         /\ toServer' = [toServer EXCEPT ![c] =
              IF readyState[c] = "OPEN"
                THEN Append(@, JsonFrame([type |-> "updateIncident", incident |-> updated]))
                ELSE @]
  /\ UNCHANGED <<serverVars, wssClients, toClient, readyState, connectionStatus, catalog,
                 clientIntervalMs, lastError, pendingIntervalRef, intervalTimeoutRef,
                 timeoutArmed, suppressIntervalRequestRef, initsSent, firstSent, tickAppended, lostRequest, pageVars>>

\* setReadingIntervalMs(v) by the page, and the effect on [readingIntervalMs]
UserSetInterval(c, v) ==
  /\ events < MaxEvents
  /\ v # clientIntervalMs[c]
  /\ events' = events + 1
  /\ clientIntervalMs' = [clientIntervalMs EXCEPT ![c] = v]
  /\ UNCHANGED readyState
  /\ IF suppressIntervalRequestRef[c]
       THEN /\ suppressIntervalRequestRef' =
                 [suppressIntervalRequestRef EXCEPT ![c] = FALSE]
            /\ UNCHANGED <<pendingIntervalRef, intervalTimeoutRef, timeoutArmed, toServer>>
       ELSE /\ UNCHANGED suppressIntervalRequestRef
            /\ RequestServerInterval(c, v)
  /\ UNCHANGED <<serverVars, wssClients, toClient, localIncidents, connectionStatus, catalog,
                 lastError, initsSent, firstSent, tickAppended, lostRequest, pageVars>>

\* incidents a peer puts in updateIncident frames it writes itself: one with an id
\* the store does not hold, one with a stored id and fields of its own
PeerUpdates == {NewIncident(ShortId), NewIncident(Inc1001)}

\* frames of a peer that writes to the socket without the hook
RawFrames ==
  {NonJsonFrame} \cup {JsonFrame(v) : v \in InvalidValues} \cup
  {JsonFrame([type |-> "updateIncident", incident |-> i]) : i \in PeerUpdates}

UserSendRaw(c, frame) ==
  /\ events < MaxEvents
  /\ readyState[c] = "OPEN"
  /\ events' = events + 1
  /\ toServer' = [toServer EXCEPT ![c] = Append(@, frame)]
  /\ UNCHANGED <<serverVars, wssClients, toClient, clientVars, initsSent, firstSent, tickAppended, lostRequest, pageVars>>

(***************************************************************************)
(* Specification                                                           *)
(***************************************************************************)
\* the state after server start and hook mount, the hook's incident list aside
InitExceptIncidents ==
  /\ incidents = SeedIncidents
  /\ readingIntervalMs = DEFAULT_READING_INTERVAL_MS
  /\ readingIntervalId = 1
  /\ timers = {[id |-> 1, period |-> DEFAULT_READING_INTERVAL_MS]}
  /\ clock = Len(SeedIncidents) * MAX_READINGS
  /\ wssClients = {}
  /\ toClient = [c \in Clients |-> <<>>]
  /\ toServer = [c \in Clients |-> <<>>]
  /\ readyState = [c \in Clients |-> "CONNECTING"]
  /\ connectionStatus = [c \in Clients |-> "disconnected"]
  /\ catalog = [c \in Clients |-> emptyCatalog]
  /\ clientIntervalMs = [c \in Clients |-> ClientInitialIntervalMs]
  /\ lastError = [c \in Clients |-> NoError]
  /\ pendingIntervalRef = [c \in Clients |-> Null]
  /\ intervalTimeoutRef = [c \in Clients |-> Null]
  /\ timeoutArmed = [c \in Clients |-> {}]
  /\ suppressIntervalRequestRef = [c \in Clients |-> FALSE]
  /\ page = [c \in Clients |-> NotRendered]
  /\ initsSent = [c \in Clients |-> 0]
  /\ firstSent = [c \in Clients |-> "none"]
  /\ tickAppended = {}
  /\ lostRequest = [c \in Clients |-> FALSE]
  /\ events = 0

Init ==
  /\ InitExceptIncidents
  /\ localIncidents = [c \in Clients |-> <<>>]

Next ==
  \/ \E c \in Clients : ServerAccept(c)
  \/ \E c \in Clients : ServerDropNonJson(c)
  \/ \E c \in Clients : ServerRejectMessage(c)
  \/ \E c \in Clients : ServerRejectIncidentId(c)
  \/ \E c \in Clients : ServerAddIncident(c)
  \/ \E c \in Clients : ServerUpdateIncident(c)
  \/ \E c \in Clients : ServerSetReadingInterval(c)
  \/ \E t \in timers : Tick(t)
  \/ \E c \in Clients : ClientOpen(c)
  \/ \E c \in Clients : ClientInit(c)
  \/ \E c \in Clients : ClientIncidentAdded(c)
  \/ \E c \in Clients : ClientIncidentUpdated(c)
  \/ \E c \in Clients : ClientReadingIntervalUpdated(c)
  \/ \E c \in Clients : ClientError(c)
  \/ \E c \in Clients : TimeoutFires(c)
  \/ \E c \in Clients : Disconnect(c)
  \/ \E c \in Clients : Reload(c)
  \/ \E c \in Clients, incident \in SendInputs : UserSendIncident(c, incident)
  \/ \E c \in Clients, id \in DragIds, target \in DropTargets : UserDropIncident(c, id, target)
  \/ \E c \in Clients, v \in IntervalChoices : UserSetInterval(c, v)
  \/ \E c \in Clients, frame \in RawFrames : UserSendRaw(c, frame)

Spec == Init /\ [][Next]_vars

\* what the server's event loop does for the socket of client c
ServerStep(c) ==
  \/ ServerDropNonJson(c)
  \/ ServerRejectMessage(c)
  \/ ServerRejectIncidentId(c)
  \/ ServerAddIncident(c)
  \/ ServerUpdateIncident(c)
  \/ ServerSetReadingInterval(c)

\* what the browser's event loop does for the hook of client c
ClientStep(c) ==
  \/ ClientOpen(c)
  \/ ClientInit(c)
  \/ ClientIncidentAdded(c)
  \/ ClientIncidentUpdated(c)
  \/ ClientReadingIntervalUpdated(c)
  \/ ClientError(c)

TimeoutStep(c) == TimeoutFires(c) \/ TimeoutFiresLate(c)

LiveNext == Next \/ \E c \in Clients : TimeoutFiresLate(c)

\* an event loop runs every queued message handler and every armed timer
Fairness ==
  \A c \in Clients :
    /\ WF_vars(ServerStep(c))
    /\ WF_vars(ClientStep(c))
    /\ WF_vars(TimeoutStep(c))

LiveSpec == Init /\ [][LiveNext]_vars /\ Fairness

(***************************************************************************)
(* The hook facing any server that sends init messages                     *)
(***************************************************************************)
\* an init with a snapshot and nothing else
SnapshotOnlyInit == [type |-> "init", incidents |-> <<SeedIncidents[4]>>]

\* an init whose catalog has one of the five sub-lists
PartialCatalogInit ==
  [type |-> "init", incidents |-> <<>>, catalog |-> [sites |-> <<"site-9">>]]

\* a full init of a server that speaks another version of the protocol
OtherVersionInit(version) ==
  [type |-> "init", protocolVersion |-> version, incidents |-> <<SeedIncidents[4]>>,
   catalog |-> ServerCatalog]

InitMessages ==
  {SnapshotOnlyInit, PartialCatalogInit, OtherVersionInit("2"), OtherVersionInit("")}

\* the socket delivers one more init message to the hook of client c
PeerSendsInit(c, msg) ==
  /\ events < MaxEvents
  /\ readyState[c] = "OPEN"
  /\ c \in wssClients
  /\ events' = events + 1
  /\ toClient' = SendTo(toClient, c, msg)
  /\ NoteSent
  /\ UNCHANGED <<serverVars, wssClients, toServer, clientVars, tickAppended, lostRequest, pageVars>>

\* a JSON message of a type the contract does not have
UnrecognizedMsg == [type |-> "incidentRemoved", incidentId |-> Inc1001]

HandlerNext ==
  \/ Next
  \/ \E c \in Clients, msg \in InitMessages \cup {UnrecognizedMsg, NonJsonText} :
       PeerSendsInit(c, msg)
  \/ \E c \in Clients : ClientRejectMessage(c)
  \/ \E c \in Clients : ClientDropNonJson(c)

HandlerSpec == Init /\ [][HandlerNext]_vars

(***************************************************************************)
(* A long run: a client adds an incident from the create form and the      *)
(* timer keeps firing                                                      *)
(***************************************************************************)
LongRunNext ==
  \/ \E c \in Clients : ServerAccept(c)
  \/ \E c \in Clients : ClientOpen(c)
  \/ \E c \in Clients : ServerSetReadingInterval(c)
  \/ \E c \in Clients : UserSendIncident(c, NewIncident(FreshId))
  \/ \E c \in Clients : ServerAddIncident(c)
  \/ \E t \in timers : ScheduledTick(t)

LongRunSpec == Init /\ [][LongRunNext]_vars

(***************************************************************************)
(* The reducer on its own: any list, any action                            *)
(***************************************************************************)
\* incidents as the create form builds them and as a drop changes them
ReducerIncidents ==
  {NewIncident(id) : id \in DragIds} \cup
  {Dropped(NewIncident(id), "completed") : id \in DragIds}

\* every list of at most MaxLen of them, lists with repeated ids included
ReducerLists == UNION {[1..n -> ReducerIncidents] : n \in 0..MaxLen}

\* the hook the lists are given to
ReducerClient == "c1"

hookVars == <<readyState, connectionStatus, catalog, clientIntervalMs, lastError,
              pendingIntervalRef, intervalTimeoutRef, timeoutArmed,
              suppressIntervalRequestRef>>

ReducerInit ==
  /\ InitExceptIncidents
  /\ localIncidents \in {[c \in Clients |-> IF c = ReducerClient THEN l ELSE <<>>] :
                           l \in ReducerLists}

\* dispatch(action) in the hook of client c
Dispatch(c, action) ==
  /\ localIncidents' = [localIncidents EXCEPT ![c] = incidentsReducer(@, action)]
  /\ UNCHANGED <<serverVars, netVars, hookVars, histVars, pageVars>>

DispatchInit(c, list) ==
  Dispatch(c, [type |-> "init", incidents |-> list])

DispatchAdd(c, incident) ==
  /\ Len(localIncidents[c]) <= MaxLen
  /\ Dispatch(c, [type |-> "add", incident |-> incident])

DispatchUpdate(c, incident) ==
  /\ Len(localIncidents[c]) <= MaxLen
  /\ Dispatch(c, [type |-> "update", incident |-> incident])

ReducerNext ==
  \/ \E list \in ReducerLists : DispatchInit(ReducerClient, list)
  \/ \E incident \in ReducerIncidents : DispatchAdd(ReducerClient, incident)
  \/ \E incident \in ReducerIncidents : DispatchUpdate(ReducerClient, incident)

ReducerSpec == ReducerInit /\ [][ReducerNext]_vars

(***************************************************************************)
(* The reading generator with its numbers: one incident as the tick's map  *)
(* callback gets it, with the readings a client sent or none               *)
(***************************************************************************)
\* readings generated in a row
MaxGenerated == 2

\* values of Math.random(), in thousandths
RandomDraws == {0, 500, 999}
Randoms == [temperatureBase : RandomDraws, pressureBase : RandomDraws,
            temperature : RandomDraws, pressure : RandomDraws]

\* readings of a payload (IncidentReadingSchema: any numbers)
PayloadReadings ==
  { [timestamp |-> 0, temperature |-> 70000, pressure |-> 20000],
    [timestamp |-> 0, temperature |-> 70040, pressure |-> 20004],
    [timestamp |-> 0, temperature |-> 70060, pressure |-> 20006] }

ReadingInit ==
  /\ InitExceptIncidents
  /\ localIncidents = [c \in Clients |-> <<>>]

\* incidents a peer puts in an updateIncident for a seed incident: with one
\* reading, or without any
NumericPayloads ==
  {NewIncident(Inc1001)} \cup
  {WithReadings(NewIncident(Inc1001), <<p>>) : p \in PayloadReadings}

\* the server has handled such an updateIncident
NumericUpdate(incident) ==
  /\ events = 0
  /\ events' = 1
  /\ incidents' = Upsert(incidents, incident)
  /\ toClient' = Broadcast(toClient, <<IncidentUpdatedMsg(incident)>>)
  /\ UNCHANGED <<readingIntervalMs, readingIntervalId, timers, clock, wssClients, toServer,
                 clientVars, pageVars, initsSent, firstSent, tickAppended, lostRequest>>

\* an incident after the tick callback, its new reading with its numbers
AdvanceNumbers(incident, n, r) ==
  WithReadings(incident,
               SliceLast(Append(ReadingsOf(incident),
                                createReadingNumbers(SliceLast(ReadingsOf(incident), 1), n, r)),
                         MAX_READINGS))

\* the tick callback, the numbers followed for the updated incident only
NumericTick(t, r) ==
  /\ t \in timers
  /\ events = 1
  /\ Cardinality(tickAppended) < MaxGenerated * Len(incidents)
  /\ incidents' = [i \in 1..Len(incidents) |->
                     IF incidents[i].incidentId = Inc1001
                       THEN AdvanceNumbers(incidents[i], clock + i - 1, r)
                       ELSE Advance(incidents[i], clock + i - 1)]
  /\ clock' = clock + Len(incidents)
  /\ toClient' = Broadcast(toClient,
                   [i \in 1..Len(incidents) |-> IncidentUpdatedMsg(incidents'[i])])
  /\ tickAppended' = tickAppended \cup {createReading(clock + i - 1).timestamp :
                                           i \in 1..Len(incidents)}
  /\ UNCHANGED <<readingIntervalMs, readingIntervalId, timers, wssClients, toServer,
                 clientVars, pageVars, initsSent, firstSent, lostRequest, events>>

ReadingNext ==
  \/ \E incident \in NumericPayloads : NumericUpdate(incident)
  \/ \E t \in timers, r \in Randoms : NumericTick(t, r)

ReadingSpec == ReadingInit /\ [][ReadingNext]_vars

(***************************************************************************)
(* IncidentsPage on its own: any list of incidents from the hook, any      *)
(* choice of the two filters                                               *)
(***************************************************************************)
\* incidents shown at once
MaxShown == 2

\* values the schema lets the filtered fields take: assignedTo is an optional,
\* nullable string; incidentTypeIds an optional list
AssignedToValues == {"undefined", "null", "", "user-1"}
Classifications ==
  { [escalationLevelId |-> "esc-1", incidentTypeIds |-> <<"type-a">>],
    [escalationLevelId |-> "esc-2", incidentTypeIds |-> <<"type-b", "type-a">>],
    [escalationLevelId |-> "esc-1"] }

FilterIncident(stateId, assignedTo, classification) ==
  IF "incidentTypeIds" \in DOMAIN classification
    THEN [incidentId |-> "inc-1", stateId |-> stateId, assignedTo |-> assignedTo,
          escalationLevelId |-> classification.escalationLevelId,
          incidentTypeIds |-> classification.incidentTypeIds]
    ELSE [incidentId |-> "inc-1", stateId |-> stateId, assignedTo |-> assignedTo,
          escalationLevelId |-> classification.escalationLevelId]

FilterIncidents ==
  { FilterIncident(st, a, cl) :
      st \in {INCIDENT_STATES.OPEN, INCIDENT_STATES.CLOSED},
      a \in AssignedToValues, cl \in Classifications }

FilterLists == UNION { [1..n -> FilterIncidents] : n \in 0..MaxShown }

EscalationChoices == {"", "esc-1", "esc-2"}
IncidentTypeChoices == {"", "type-a", "type-b"}

FilterInit ==
  /\ InitExceptIncidents
  /\ \E list \in FilterLists :
       localIncidents = [c \in Clients |-> IF c = ReducerClient THEN list ELSE <<>>]

\* the page renders with the hook's incidents and the chosen filters
RenderIncidentsPage(c, selectedEscalation, selectedIncidentType) ==
  /\ page' = [page EXCEPT ![c] =
       RenderedPage(localIncidents[c], selectedEscalation, selectedIncidentType)]
  /\ UNCHANGED <<serverVars, netVars, clientVars, histVars>>

FilterNext ==
  \E esc \in EscalationChoices, t \in IncidentTypeChoices :
    RenderIncidentsPage(ReducerClient, esc, t)

FilterSpec == FilterInit /\ [][FilterNext]_vars

(***************************************************************************)
(* What a step shows from outside                                          *)
(***************************************************************************)
\* the server handled the oldest frame of client c in this step
Consumed(c) ==
  /\ c \in wssClients
  /\ c \in wssClients'
  /\ toServer[c] # <<>>
  /\ toServer'[c] = Tail(toServer[c])

\* the frame handled is JSON of the given type
ConsumedType(c, type) ==
  /\ Consumed(c)
  /\ Head(toServer[c]).json
  /\ "type" \in DOMAIN Head(toServer[c]).value
  /\ Head(toServer[c]).value.type = type

\* the messages the server sent to client d in this step
NewMsgs(d) == SubSeq(toClient'[d], Len(toClient[d]) + 1, Len(toClient'[d]))

\* the client handled the oldest message sent to it, of the given type
Received(c, type) ==
  /\ readyState[c] = "OPEN"
  /\ readyState'[c] = "OPEN"
  /\ toClient[c] # <<>>
  /\ Head(toClient[c]).type = type
  /\ toClient'[c] = Tail(toClient[c])

\* every frame sent by either side has been handled
Quiescent ==
  \A c \in Clients : toClient[c] = <<>> /\ toServer[c] = <<>>

Range(s) == {s[i] : i \in 1..Len(s)}

\* does the identifier fall outside 3 to 32 letters, digits and hyphens
OutsidePattern(id) ==
  \/ Len(id) < 3
  \/ Len(id) > 32
  \/ \E i \in 1..Len(id) : id[i] \notin PatternChars

(***************************************************************************)
(* C1  Identity uniqueness: no two incidents of the server's store have    *)
(* the same incidentId.                                                    *)
(***************************************************************************)
C1_IdentityUniqueness ==
  \A i, j \in 1..Len(incidents) :
    i # j => incidents[i].incidentId # incidents[j].incidentId

(***************************************************************************)
(* C2  Validation rejection: when the server handles an addIncident whose  *)
(* incidentId is outside the pattern, the sender gets exactly one error    *)
(* with code INVALID_INCIDENT_ID, the store is left as it was, and no      *)
(* other client is sent anything (so no incidentAdded goes out).           *)
(***************************************************************************)
C2_RejectedAdd(c) ==
  /\ ConsumedType(c, "addIncident")
  /\ "incident" \in DOMAIN Head(toServer[c]).value
  /\ OutsidePattern(Head(toServer[c]).value.incident.incidentId)

C2_ValidationRejection ==
  [][\A c \in Clients :
       C2_RejectedAdd(c) =>
         /\ incidents' = incidents
         /\ Len(NewMsgs(c)) = 1
         /\ NewMsgs(c)[1].type = "error"
         /\ NewMsgs(c)[1].code = "INVALID_INCIDENT_ID"
         /\ \A d \in Clients \ {c} : toClient'[d] = toClient[d]]_vars

\* a rejection has been answered while a second client was connected
C2_Witness ==
  \E c \in wssClients :
    /\ wssClients # {c}
    /\ \E i \in 1..Len(toClient[c]) :
         /\ toClient[c][i].type = "error"
         /\ toClient[c][i].code = "INVALID_INCIDENT_ID"

(***************************************************************************)
(* C3  Contract-validation error isolation: when the server handles a JSON *)
(* frame that does not match the client message schema, the sender gets    *)
(* exactly one error with code INVALID_MESSAGE, no other socket is sent    *)
(* anything, and the store, the global interval and the tick timer are     *)
(* left as they were.                                                      *)
(***************************************************************************)
C3_InvalidFrame(c) ==
  /\ Consumed(c)
  /\ Head(toServer[c]).json
  /\ Head(toServer[c]).value \in InvalidValues

C3_ContractErrorIsolation ==
  [][\A c \in Clients :
       C3_InvalidFrame(c) =>
         /\ Len(NewMsgs(c)) = 1
         /\ NewMsgs(c)[1].type = "error"
         /\ NewMsgs(c)[1].code = "INVALID_MESSAGE"
         /\ \A d \in Clients \ {c} : toClient'[d] = toClient[d]
         /\ incidents' = incidents
         /\ readingIntervalMs' = readingIntervalMs
         /\ readingIntervalId' = readingIntervalId
         /\ timers' = timers]_vars

\* an INVALID_MESSAGE error is on its way while two clients are connected
C3_Witness ==
  \E c \in wssClients :
    /\ wssClients # {c}
    /\ \E i \in 1..Len(toClient[c]) :
         /\ toClient[c][i].type = "error"
         /\ toClient[c][i].code = "INVALID_MESSAGE"

(***************************************************************************)
(* C4  Fan-out: when the server handles a valid addIncident, any           *)
(* updateIncident or any setReadingInterval, every socket connected at     *)
(* that moment, the sender included, is sent exactly one message, of type  *)
(* incidentAdded, incidentUpdated or readingIntervalUpdated respectively,  *)
(* carrying the incident or the interval the server stored.                *)
(***************************************************************************)
C4_Committed(c, type) ==
  /\ ConsumedType(c, type)
  /\ type = "addIncident" =>
       ~OutsidePattern(Head(toServer[c]).value.incident.incidentId)

C4_Answer(type) ==
  IF type = "addIncident" THEN "incidentAdded"
  ELSE IF type = "updateIncident" THEN "incidentUpdated"
  ELSE "readingIntervalUpdated"

C4_FanOut ==
  [][\A c \in Clients :
       \A type \in {"addIncident", "updateIncident", "setReadingInterval"} :
         C4_Committed(c, type) =>
           \A d \in wssClients :
             /\ Len(NewMsgs(d)) = 1
             /\ NewMsgs(d)[1].type = C4_Answer(type)
             /\ type = "setReadingInterval" =>
                  NewMsgs(d)[1].intervalMs = readingIntervalMs'
             /\ type # "setReadingInterval" =>
                  /\ NewMsgs(d)[1].incident \in Range(incidents')
                  /\ NewMsgs(d)[1].incident.incidentId =
                       Head(toServer[c]).value.incident.incidentId]_vars

\* two connected clients hold the same incidentAdded
C4_Witness ==
  \E c, d \in wssClients :
    /\ c # d
    /\ \E i \in 1..Len(toClient[c]), j \in 1..Len(toClient[d]) :
         /\ toClient[c][i].type = "incidentAdded"
         /\ toClient[d][j] = toClient[c][i]

(***************************************************************************)
(* C5  Init first: on every connection the server has sent exactly one     *)
(* init, it is the first message sent on that connection, and its          *)
(* incidents are the store as it was when the connection was established.  *)
(***************************************************************************)
C5_InitFirst ==
  [][\A c \in Clients :
       /\ c \in wssClients' => initsSent'[c] = 1 /\ firstSent'[c] = "init"
       /\ (c \notin wssClients /\ c \in wssClients') =>
            /\ toClient'[c] # <<>>
            /\ toClient'[c][1].type = "init"
            /\ toClient'[c][1].incidents = incidents]_vars

\* a connection made after the store changed, with a later message behind the init
C5_Witness ==
  \E c \in wssClients :
    /\ Len(toClient[c]) > 1
    /\ Head(toClient[c]).type = "init"
    /\ Head(toClient[c]).incidents # SeedIncidents

(***************************************************************************)
(* C6  Eventual consistency: whenever no frame is in flight in either      *)
(* direction, the incident list of every client with an open socket that   *)
(* has handled its init equals the server's store, in the same order.      *)
(***************************************************************************)
C6_EventualConsistency ==
  Quiescent =>
    \A c \in wssClients :
      readyState[c] = "OPEN" => localIncidents[c] = incidents

(***************************************************************************)
(* C7  History bound at all times: every incident of the store has at     *)
(* most 24 readings.                                                       *)
(***************************************************************************)
C7_HistoryBound ==
  \A i \in 1..Len(incidents) : Len(ReadingsOf(incidents[i])) <= MAX_READINGS

(***************************************************************************)
(* C8  Tick step: a tick gives every incident of the store its previous    *)
(* readings followed by exactly one newly created reading, cut from the    *)
(* front to the last 24, leaves everything else of the incident as it was, *)
(* and sends every connected socket exactly one incidentUpdated per        *)
(* incident of the store, in store order, carrying the incident as stored. *)
(***************************************************************************)
\* a step of the tick callback: readings were created and no incident was added
C8_TickStep ==
  /\ clock' # clock
  /\ Len(incidents') = Len(incidents)

C8_Appended(old, new) ==
  /\ Len(new) = (IF Len(old) + 1 <= MAX_READINGS THEN Len(old) + 1 ELSE MAX_READINGS)
  /\ new[Len(new)].timestamp > clock
  /\ new[Len(new)] \notin Range(old)
  /\ \A k \in 1..(Len(new) - 1) : new[k] = old[Len(old) + 1 - Len(new) + k]

C8_TickAdvance ==
  [][C8_TickStep =>
       /\ \A i \in 1..Len(incidents) :
            /\ C8_Appended(ReadingsOf(incidents[i]), ReadingsOf(incidents'[i]))
            /\ \A f \in (DOMAIN incidents[i]) \ {"readings"} :
                 incidents'[i][f] = incidents[i][f]
       /\ \A d \in wssClients :
            /\ Len(NewMsgs(d)) = Len(incidents)
            /\ \A i \in 1..Len(incidents) :
                 /\ NewMsgs(d)[i].type = "incidentUpdated"
                 /\ NewMsgs(d)[i].incident = incidents'[i]]_vars

\* after a tick that cut a full history, with its broadcasts waiting at a client
C8_Witness ==
  /\ tickAppended # {}
  /\ \A i \in 1..Len(incidents) :
       /\ Len(ReadingsOf(incidents[i])) = MAX_READINGS
       /\ incidents[i].readings[MAX_READINGS].timestamp \in tickAppended
  /\ \E c \in wssClients :
       /\ Len(toClient[c]) >= Len(incidents)
       /\ toClient[c][Len(toClient[c])] =
            IncidentUpdatedMsg(incidents[Len(incidents)])

(***************************************************************************)
(* C9  Readings are only appended: a reading that a tick appended to an    *)
(* incident stays in the stored readings of that incident until 24 newer   *)
(* readings stand behind it, whatever updateIncident messages arrive.      *)
(***************************************************************************)
C9_Newer(rs, r) == {k \in 1..Len(rs) : rs[k].timestamp > r.timestamp}

C9_ReadingsKept ==
  [][\A i \in 1..Len(incidents) :
       \A r \in Range(ReadingsOf(incidents[i])) :
         r.timestamp \in tickAppended =>
           \E j \in 1..Len(incidents') :
             /\ incidents'[j].incidentId = incidents[i].incidentId
             /\ \/ r \in Range(ReadingsOf(incidents'[j]))
                \/ Cardinality(C9_Newer(ReadingsOf(incidents'[j]), r)) >= MAX_READINGS]_vars

C11_Matching(c) ==
  /\ Received(c, "readingIntervalUpdated")
  /\ pendingIntervalRef[c] # Null
  /\ Head(toClient[c]).intervalMs = pendingIntervalRef[c]

C11_MatchingAck ==
  [][\A c \in Clients :
       C11_Matching(c) =>
         /\ pendingIntervalRef'[c] = Null
         /\ timeoutArmed'[c] = {}
         /\ intervalTimeoutRef'[c] = Null
         /\ lastError'[c] = NoError
         /\ clientIntervalMs'[c] = Head(toClient[c]).intervalMs]_vars

(***************************************************************************)
(* C12  Adoption without echo: when a client with no request pending       *)
(* handles a readingIntervalUpdated, then afterwards its readingIntervalMs *)
(* is the server's value, and the step sends no frame to the server and    *)
(* starts no request (nothing pending, no wait timer).                     *)
(***************************************************************************)
C12_Adoption(c) ==
  /\ Received(c, "readingIntervalUpdated")
  /\ pendingIntervalRef[c] = Null

C12_AdoptionWithoutEcho ==
  [][\A c \in Clients :
       C12_Adoption(c) =>
         /\ clientIntervalMs'[c] = Head(toClient[c]).intervalMs
         /\ toServer'[c] = toServer[c]
         /\ pendingIntervalRef'[c] = Null
         /\ timeoutArmed'[c] = {}]_vars

\* a client runs on the interval the server made of another client's request
C12_Witness ==
  \E c \in Clients :
    /\ readyState[c] = "OPEN"
    /\ pendingIntervalRef[c] = Null
    /\ lastError[c] = NoError
    /\ clientIntervalMs[c] = MIN_READING_INTERVAL_MS
    /\ clientIntervalMs[c] = readingIntervalMs
    /\ toServer[c] = <<>>
    /\ \E d \in Clients \ {c} : lastError[d] = DiscrepancyError

(***************************************************************************)
(* C13  Ack timeout: when the wait timer of a client expires before a      *)
(* readingIntervalUpdated was handled, then afterwards lastError is the    *)
(* 'not confirmed' warning and nothing is pending.                         *)
(***************************************************************************)
\* the step in which the armed timer of client c runs its callback
C13_Expired(c) ==
  /\ timeoutArmed[c] # {}
  /\ timeoutArmed'[c] = {}
  /\ toClient'[c] = toClient[c]
  /\ readyState'[c] = readyState[c]

C13_AckTimeout ==
  [][\A c \in Clients :
       C13_Expired(c) =>
         /\ lastError'[c] = NotConfirmedError
         /\ pendingIntervalRef'[c] = Null]_vars

(***************************************************************************)
(* C14  Unconfirmed requests are detected: when a client has sent a        *)
(* setReadingInterval that the server never handled (the connection closed *)
(* over it, so no answer to it can reach the client), the client           *)
(* eventually shows the 'Server did not confirm the reading interval       *)
(* change.' warning, unless the page is loaded again, whatever other       *)
(* requests and broadcasts of other clients came in between.               *)
(***************************************************************************)
C14_UnconfirmedDetected ==
  \A c \in Clients :
    lostRequest[c] ~> (lastError[c] = NotConfirmedError \/ ~lostRequest[c])

(***************************************************************************)
(* C15  Interval floor: when the server handles a setReadingInterval with  *)
(* intervalMs = v, the global interval becomes v, or 250 when v is below   *)
(* 250, and the readingIntervalUpdated sent to every connected socket      *)
(* carries that value; the global interval is at least 250 in every state. *)
(***************************************************************************)
C15_Clamped(v) == IF v < MIN_READING_INTERVAL_MS THEN MIN_READING_INTERVAL_MS ELSE v

C15_IntervalFloor ==
  /\ [](readingIntervalMs >= MIN_READING_INTERVAL_MS)
  /\ [][\A c \in Clients :
          ConsumedType(c, "setReadingInterval") =>
            /\ readingIntervalMs' = C15_Clamped(Head(toServer[c]).value.intervalMs)
            /\ \A d \in wssClients :
                 NewMsgs(d) = <<[type |-> "readingIntervalUpdated",
                                 intervalMs |-> readingIntervalMs']>>]_vars

\* a request below the floor has been answered with the floor
C15_Witness ==
  /\ readingIntervalMs = MIN_READING_INTERVAL_MS
  /\ \E c \in wssClients :
       /\ clientIntervalMs[c] < MIN_READING_INTERVAL_MS
       /\ toClient[c] # <<>>
       /\ toClient[c][Len(toClient[c])] =
            ReadingIntervalUpdatedMsg(MIN_READING_INTERVAL_MS)

(***************************************************************************)
(* C16  Single tick timer: in every state exactly one tick timer runs, it  *)
(* is the one the server holds and its period is the global interval;      *)
(* when the server handles a setReadingInterval, also one that asks for    *)
(* the current value, the timer that ran before is gone and a timer that   *)
(* did not run before is the only one left, so a tick can only come from   *)
(* the timer started by the latest interval change.                        *)
(***************************************************************************)
C16_OneTimer ==
  /\ Cardinality(timers) = 1
  /\ \A t \in timers : t.id = readingIntervalId /\ t.period = readingIntervalMs

C16_SingleTickTimer ==
  /\ []C16_OneTimer
  /\ [][\A c \in Clients :
          ConsumedType(c, "setReadingInterval") =>
            /\ timers' \cap timers = {}
            /\ \A t \in timers' : \A u \in timers : t.id # u.id
            /\ timers' = {[id |-> readingIntervalId',
                           period |-> readingIntervalMs']}]_vars

\* the timer was restarted by a request for the interval that was already running
C16_Witness ==
  /\ readingIntervalId > 2
  /\ readingIntervalMs = DEFAULT_READING_INTERVAL_MS
  /\ \E c \in wssClients : toClient[c] # <<>> /\
       toClient[c][Len(toClient[c])] = ReadingIntervalUpdatedMsg(DEFAULT_READING_INTERVAL_MS)
  /\ \A c \in Clients : clientIntervalMs[c] = DEFAULT_READING_INTERVAL_MS
  /\ tickAppended # {}

(***************************************************************************)
(* C17  Client update reconciliation: when a client handles an             *)
(* incidentUpdated for incident I and its list holds an incident with I's  *)
(* id, the new list has the same length, holds I at that position and is   *)
(* unchanged at every other position; when its list holds no incident with *)
(* I's id, the new list is I followed by the old list.                     *)
(***************************************************************************)
C17_Reconciled(old, new, I) ==
  LET at == {p \in 1..Len(old) : old[p].incidentId = I.incidentId}
  IN  IF at # {}
        THEN /\ Len(new) = Len(old)
             /\ \E p \in at :
                  /\ new[p] = I
                  /\ \A q \in (1..Len(old)) \ {p} : new[q] = old[q]
        ELSE new = <<I>> \o old

C17_UpdateReconciliation ==
  [][\A c \in Clients :
       Received(c, "incidentUpdated") =>
         C17_Reconciled(localIncidents[c], localIncidents'[c],
                        Head(toClient[c]).incident)]_vars

(***************************************************************************)
(* C18  Update idempotence: for every local list, the empty list and lists *)
(* with repeated ids included, and every incident I, applying the update   *)
(* of I twice with the client reducer gives the list that applying it once *)
(* gives.                                                                  *)
(***************************************************************************)
C18_Once(list, I) == incidentsReducer(list, [type |-> "update", incident |-> I])

C18_UpdateIdempotence ==
  \A c \in Clients :
    \A I \in ReducerIncidents :
      C18_Once(C18_Once(localIncidents[c], I), I) = C18_Once(localIncidents[c], I)

\* a list the dispatches made, longer than any initial one: a prepended incident
\* in front of entries with one id that an update has made equal
C18_Witness ==
  \E c \in Clients :
    /\ Len(localIncidents[c]) = MaxLen + 1
    /\ localIncidents[c][1].incidentId = FreshId
    /\ \A i \in 2..Len(localIncidents[c]) :
         localIncidents[c][i] = Dropped(NewIncident(Inc1001), "completed")
    /\ \E d \in Clients : localIncidents[d] = <<>>

(***************************************************************************)
(* C19  Client add: when a client handles an incidentAdded, its new list   *)
(* is the incident followed by the old list, one longer than before, also  *)
(* when the old list already holds an incident with the same id.           *)
(***************************************************************************)
C19_ClientAdd ==
  [][\A c \in Clients :
       Received(c, "incidentAdded") =>
         /\ Len(localIncidents'[c]) = Len(localIncidents[c]) + 1
         /\ localIncidents'[c][1] = Head(toClient[c]).incident
         /\ Tail(localIncidents'[c]) = localIncidents[c]]_vars

\* a client has prepended an added incident whose id it already held
C19_Witness ==
  \E c \in Clients :
    /\ Len(localIncidents[c]) = Len(SeedIncidents) + 1
    /\ localIncidents[c][1].incidentId = Inc1001
    /\ localIncidents[c][1].createdAt = "now"
    /\ \E i \in 2..Len(localIncidents[c]) : localIncidents[c][i].incidentId = Inc1001

(***************************************************************************)
(* C20  Client init: when a client handles an init message, its list       *)
(* becomes the snapshot the message carries, whatever the list held        *)
(* before, and its catalog has each of the five sub-lists: the one of the  *)
(* message's catalog, or the empty list when the message's catalog has no  *)
(* such sub-list.                                                          *)
(***************************************************************************)
C20_Replaced(c, msg) ==
  /\ "incidents" \in DOMAIN msg => localIncidents'[c] = msg.incidents
  /\ \A f \in CatalogFields :
       /\ f \in DOMAIN catalog'[c]
       /\ "catalog" \in DOMAIN msg =>
            catalog'[c][f] = IF f \in DOMAIN msg.catalog THEN msg.catalog[f] ELSE <<>>

C20_ClientInit ==
  [][\A c \in Clients :
       Received(c, "init") => C20_Replaced(c, Head(toClient[c]))]_vars

(***************************************************************************)
(* C21  Server add: when the server handles an addIncident with a valid    *)
(* id, the store becomes the stored incident followed by the old store;    *)
(* the stored incident is the one sent, with exactly one newly created     *)
(* reading when it was sent without readings or with an empty list, and    *)
(* with its readings as sent otherwise; every connected socket is sent an  *)
(* incidentAdded carrying the stored incident.                             *)
(***************************************************************************)
C21_Stored(sent, stored) ==
  /\ \A f \in (DOMAIN sent) \ {"readings"} : f \in DOMAIN stored /\ stored[f] = sent[f]
  /\ DOMAIN stored = DOMAIN sent \cup {"readings"}
  /\ IF "readings" \in DOMAIN sent /\ Len(sent.readings) > 0
       THEN stored.readings = sent.readings
       ELSE /\ Len(stored.readings) = 1
            /\ stored.readings[1].timestamp > clock

C21_ServerAdd ==
  [][\A c \in Clients :
       C4_Committed(c, "addIncident") =>
         /\ Len(incidents') = Len(incidents) + 1
         /\ Tail(incidents') = incidents
         /\ C21_Stored(Head(toServer[c]).value.incident, incidents'[1])
         /\ \A d \in wssClients :
              NewMsgs(d) = <<[type |-> "incidentAdded", incident |-> incidents'[1]]>>]_vars

\* the store holds an incident added with its readings as sent, and in front of it
\* one added with an empty list that got its seed reading
C21_Witness ==
  /\ Len(incidents) = Len(SeedIncidents) + 2
  /\ incidents[2].readings = LongReadings
  /\ incidents[1].incidentId = FreshId
  /\ Len(incidents[1].readings) = 1
  /\ \E c \in wssClients : \E i \in 1..Len(toClient[c]) :
       toClient[c][i] = IncidentAddedMsg(incidents[1])

(***************************************************************************)
(* C22  Server upsert: when the server handles an updateIncident for       *)
(* incident I, then, if the store holds an incident with I's id, the store *)
(* keeps its length, holds I at the position of such an incident and is    *)
(* unchanged elsewhere, and otherwise the store becomes I followed by the  *)
(* old store; in both cases every connected socket, the sender included,   *)
(* is sent one incidentUpdated carrying I and no error, whatever I's id    *)
(* looks like.                                                             *)
(***************************************************************************)
C22_Upserted(old, new, I) ==
  LET at == {p \in 1..Len(old) : old[p].incidentId = I.incidentId}
  IN  IF at # {}
        THEN /\ Len(new) = Len(old)
             /\ \E p \in at :
                  /\ new[p] = I
                  /\ \A q \in (1..Len(old)) \ {p} : new[q] = old[q]
        ELSE new = <<I>> \o old

C22_ServerUpsert ==
  [][\A c \in Clients :
       ConsumedType(c, "updateIncident") =>
         /\ C22_Upserted(incidents, incidents', Head(toServer[c]).value.incident)
         /\ \A d \in wssClients :
              NewMsgs(d) = <<[type |-> "incidentUpdated",
                              incident |-> Head(toServer[c]).value.incident]>>]_vars

\* an update for an id outside the pattern was put in front, and one for a stored
\* id has replaced the stored incident where it was
C22_Witness ==
  /\ Len(incidents) = Len(SeedIncidents) + 1
  /\ incidents[1].incidentId = ShortId
  /\ incidents[2] = NewIncident(Inc1001)
  /\ \A c \in Clients : \A i \in 1..Len(toClient[c]) : toClient[c][i].type # "error"

(***************************************************************************)
(* C27  Identifier pattern: every incident of the server's store has an    *)
(* incidentId of 3 to 32 letters, digits and hyphens, in every state.      *)
(***************************************************************************)
C27_IdentifierPattern ==
  \A i \in 1..Len(incidents) : ~OutsidePattern(incidents[i].incidentId)

(***************************************************************************)
(* C28  createdAt is immutable: the createdAt stored with an incidentId is *)
(* still stored with that incidentId after every step.                     *)
(***************************************************************************)
C28_CreatedAtImmutable ==
  [][\A i \in 1..Len(incidents) :
       \E j \in 1..Len(incidents') :
         /\ incidents'[j].incidentId = incidents[i].incidentId
         /\ incidents'[j].createdAt = incidents[i].createdAt]_vars

(***************************************************************************)
(* C29  No deletion: an incidentId of the store is in the store after      *)
(* every step, and no step makes the store shorter.                        *)
(***************************************************************************)
C29_NoDeletion ==
  [][/\ Len(incidents') >= Len(incidents)
     /\ \A i \in 1..Len(incidents) :
          \E j \in 1..Len(incidents') :
            incidents'[j].incidentId = incidents[i].incidentId]_vars

\* an incident has been put in front of the seed incidents, which are all still
\* there, and the client that sent it has left since
C29_Witness ==
  /\ Len(incidents) > Len(SeedIncidents)
  /\ \A i \in 1..Len(SeedIncidents) :
       \E j \in 2..Len(incidents) : incidents[j].incidentId = SeedIncidents[i].incidentId
  /\ wssClients = {}
  /\ \E c \in Clients : readyState[c] = "CLOSED"

(***************************************************************************)
(* C30  Disconnection has no side effects: the step in which a client      *)
(* leaves wss.clients changes neither the store nor the global interval    *)
(* nor the tick timer and sends nothing to any other client; and no step   *)
(* sends anything to a socket that is not in wss.clients.                  *)
(***************************************************************************)
C30_Leaves(c) == c \in wssClients /\ c \notin wssClients'

C30_DisconnectFrame ==
  [][\A c \in Clients :
       /\ C30_Leaves(c) =>
            /\ incidents' = incidents
            /\ readingIntervalMs' = readingIntervalMs
            /\ readingIntervalId' = readingIntervalId
            /\ timers' = timers
            /\ \A d \in Clients \ {c} : toClient'[d] = toClient[d]
       /\ c \notin wssClients' => NewMsgs(c) = <<>>]_vars

\* a client that was served (it holds the snapshot) has left; both clients'
\* requests have restarted the timer, the last timer is the only one, and the
\* remaining client is the only one with messages waiting
C30_Witness ==
  \E c, d \in Clients :
    /\ readyState[c] = "CLOSED"
    /\ localIncidents[c] # <<>>
    /\ readingIntervalId = 3
    /\ timers = {[id |-> readingIntervalId, period |-> readingIntervalMs]}
    /\ wssClients = {d}
    /\ toClient[c] = <<>>
    /\ toClient[d] # <<>>
    /\ toClient[d][Len(toClient[d])].type = "readingIntervalUpdated"

(***************************************************************************)
(* C23  Add, then ticks, as a connected client sees them: the incidentAdded *)
(* sent for an addIncident without a readings field carries exactly one    *)
(* reading; the incidentUpdated that the k-th tick after it sends for the   *)
(* added incident carries min(1 + k, 24) readings, and all of them but the  *)
(* newest are the latest readings of the previous broadcast for that        *)
(* incident, in the same order (the oldest one is left out once the         *)
(* previous broadcast carried 24).                                          *)
(***************************************************************************)
C23_About(m, id) ==
  /\ m.type \in {"incidentAdded", "incidentUpdated"}
  /\ m.incident.incidentId = id

\* the position of the last broadcast about id in the queue q, 0 when there is none
C23_LastAbout(q, id) ==
  IF \E j \in 1..Len(q) : C23_About(q[j], id)
    THEN CHOOSE j \in 1..Len(q) :
           /\ C23_About(q[j], id)
           /\ \A l \in (j + 1)..Len(q) : ~C23_About(q[l], id)
    ELSE 0

\* the position of the incidentAdded for id in q, 0 when there is none
C23_Echo(q, id) ==
  IF \E j \in 1..Len(q) : q[j].type = "incidentAdded" /\ q[j].incident.incidentId = id
    THEN CHOOSE j \in 1..Len(q) : q[j].type = "incidentAdded" /\ q[j].incident.incidentId = id
    ELSE 0

\* how many ticks have sent an incidentUpdated for id behind position e of q
C23_TicksSince(q, e, id) ==
  Cardinality({j \in (e + 1)..Len(q) : q[j].type = "incidentUpdated" /\ q[j].incident.incidentId = id})

C23_Once(id) ==
  Cardinality({i \in 1..Len(incidents) : incidents[i].incidentId = id}) = 1

C23_Min(a, b) == IF a <= b THEN a ELSE b

C23_EchoCarriesOne ==
  \A c \in Clients :
    (C4_Committed(c, "addIncident") /\ ~HasReadings(Head(toServer[c]).value.incident)) =>
      \A d \in wssClients :
        /\ Len(NewMsgs(d)) = 1
        /\ NewMsgs(d)[1].type = "incidentAdded"
        /\ Len(NewMsgs(d)[1].incident.readings) = 1

\* the entries of sent before the newest are the first entries of prev
C23_EarliestArePrevious(prev, sent) ==
  \A k \in 1..(Len(sent) - 1) : k <= Len(prev) /\ sent[k] = prev[k]

\* the entries of sent before the newest are the last entries of prev
C23_EarliestAreLatestPrevious(prev, sent) ==
  \A k \in 1..(Len(sent) - 1) :
    /\ Len(prev) + 1 - Len(sent) + k >= 1
    /\ sent[k] = prev[Len(prev) + 1 - Len(sent) + k]

\* a tick's broadcast for an incident added without readings, at client d
C23_TickCase(d, i) ==
  /\ C8_TickStep
  /\ d \in wssClients
  /\ i \in 1..Len(incidents)
  /\ C23_Once(incidents[i].incidentId)
  /\ C23_Echo(toClient[d], incidents[i].incidentId) > 0
  /\ Len(toClient[d][C23_Echo(toClient[d], incidents[i].incidentId)].incident.readings) = 1

C23_Count(d, i) ==
  LET id == incidents[i].incidentId
      q == toClient[d]
  IN  Len(NewMsgs(d)[i].incident.readings) =
        C23_Min(1 + (C23_TicksSince(q, C23_Echo(q, id), id) + 1), MAX_READINGS)

C23_Prev(d, i) == toClient[d][C23_LastAbout(toClient[d], incidents[i].incidentId)].incident.readings

\* as stated: the earliest entries are the readings of the previous broadcast
C23_AsStated ==
  [][/\ C23_EchoCarriesOne
     /\ \A d \in Clients : \A i \in 1..Len(incidents) :
          C23_TickCase(d, i) =>
            /\ C23_Count(d, i)
            /\ C23_EarliestArePrevious(C23_Prev(d, i), NewMsgs(d)[i].incident.readings)]_vars

\* positions of the messages of one type in the queue q
C23_Positions(q, type) == {j \in 1..Len(q) : q[j].type = type}

\* the position in q of the echo of the incident now at store position i: adds
\* put in front, so the last echo is about position 1; 0 when q holds no such echo
C23_EchoOf(q, i) ==
  LET echoes == C23_Positions(q, "incidentAdded")
  IN  IF i <= Cardinality(echoes)
        THEN CHOOSE e \in echoes : Cardinality({j \in echoes : j >= e}) = i
        ELSE 0

\* ticks whose broadcasts are in q (each sent one message per incident)
C23_Rounds(q) == Cardinality(C23_Positions(q, "incidentUpdated")) \div Len(incidents)

\* the readings of the previous broadcast for the incident at store position i
C23_PrevOf(q, i) ==
  IF C23_Rounds(q) = 0
    THEN q[C23_EchoOf(q, i)].incident.readings
    ELSE q[Len(q) - Len(incidents) + i].incident.readings

C23_AddThenTick ==
  [][/\ C23_EchoCarriesOne
     /\ C8_TickStep =>
          \A d \in wssClients : \A i \in 1..Len(incidents) :
            LET q == toClient[d]
                sent == NewMsgs(d)[i].incident
            IN  (/\ C23_EchoOf(q, i) > 0
                 /\ Len(q[C23_EchoOf(q, i)].incident.readings) = 1) =>
                  /\ sent.incidentId = q[C23_EchoOf(q, i)].incident.incidentId
                  /\ Len(sent.readings) =
                       C23_Min(1 + (C23_Rounds(q) + 1), MAX_READINGS)
                  /\ C23_EarliestAreLatestPrevious(C23_PrevOf(q, i), sent.readings)]_vars

\* a client holds the echo with one reading and, behind it, the broadcasts of 24
\* ticks for that id; the last one carries 24 readings and no longer the echo's
C23_Witness ==
  \E d \in wssClients :
    LET q == toClient[d]
        e == C23_Echo(q, FreshId)
        l == C23_LastAbout(q, FreshId)
    IN  /\ C23_Once(FreshId)
        /\ e > 0
        /\ Len(q[e].incident.readings) = 1
        /\ C23_TicksSince(q, e, FreshId) = MAX_READINGS
        /\ Len(q[l].incident.readings) = MAX_READINGS
        /\ q[e].incident.readings[1] \notin Range(q[l].incident.readings)

(***************************************************************************)
(* C24  Bucketing: of the incidents the page holds, one that passes both   *)
(* filters is shown under 'new' only when it is OPEN and its assignedTo is *)
(* undefined or null, under 'active' only when it is OPEN with an          *)
(* assignedTo, under 'completed' only when it is CLOSED; one that fails a  *)
(* filter is shown in no column.                                           *)
(***************************************************************************)
C24_Absent(incident) == incident.assignedTo \in {"undefined", "null"}

C24_PassesFilters(incident, p) ==
  /\ p.selectedEscalation = "" \/ incident.escalationLevelId = p.selectedEscalation
  /\ \/ p.selectedIncidentType = ""
     \/ /\ "incidentTypeIds" \in DOMAIN incident
        /\ p.selectedIncidentType \in Range(incident.incidentTypeIds)

C24_Bucketing ==
  \A c \in Clients :
    page[c].rendered =>
      \A i \in 1..Len(localIncidents[c]) :
        LET incident == localIncidents[c][i]
            p == page[c]
        IN  /\ incident \in Range(p.filteredNew) =>
                 /\ C24_PassesFilters(incident, p)
                 /\ incident.stateId = "OPEN"
                 /\ C24_Absent(incident)
            /\ incident \in Range(p.filteredActive) =>
                 /\ C24_PassesFilters(incident, p)
                 /\ incident.stateId = "OPEN"
                 /\ ~C24_Absent(incident)
            /\ incident \in Range(p.filteredCompleted) =>
                 /\ C24_PassesFilters(incident, p)
                 /\ incident.stateId = "CLOSED"

(***************************************************************************)
(* C25  Bounded drift: a reading the server generated from a previous      *)
(* reading, whether the server generated that one or a client sent it,     *)
(* differs from it by at most 2 in temperature and at most 1 in pressure.  *)
(***************************************************************************)
C25_Abs(x) == IF x < 0 THEN 0 - x ELSE x

C25_Generated(rs, k) == rs[k].timestamp \in tickAppended

C25_BoundedDrift ==
  \A i \in 1..Len(incidents) :
    LET rs == ReadingsOf(incidents[i])
    IN  \A k \in 2..Len(rs) :
          (C25_Generated(rs, k) /\ "temperature" \in DOMAIN rs[k]) =>
            /\ C25_Abs(rs[k].temperature - rs[k - 1].temperature) <= 2000
            /\ C25_Abs(rs[k].pressure - rs[k - 1].pressure) <= 1000

(***************************************************************************)
(* C26  Seed range: a reading created without a previous reading has its   *)
(* temperature in [68, 80) and its pressure in [18, 24).                   *)
(***************************************************************************)
C26_SeedRange ==
  \A i \in 1..Len(incidents) :
    LET rs == ReadingsOf(incidents[i])
    IN  (/\ Len(rs) > 0
         /\ C25_Generated(rs, 1)
         /\ "temperature" \in DOMAIN rs[1]) =>
          /\ rs[1].temperature >= 68000 /\ rs[1].temperature < 80000
          /\ rs[1].pressure >= 18000 /\ rs[1].pressure < 24000

(***************************************************************************)
(* C31  Protocol-version mismatch is a soft failure: when a client handles *)
(* an init whose protocolVersion is not "1", its list and its catalog      *)
(* become the snapshot's, lastError is the protocol-mismatch warning        *)
(* afterwards, and the connection stays open.                              *)
(***************************************************************************)
C31_OtherVersion(c) ==
  /\ Received(c, "init")
  /\ ServerMessageSchema(Head(toClient[c]))
  /\ "protocolVersion" \in DOMAIN Head(toClient[c])
  /\ Head(toClient[c]).protocolVersion # PROTOCOL_VERSION

C31_SoftMismatch ==
  [][\A c \in Clients :
       C31_OtherVersion(c) =>
         /\ C20_Replaced(c, Head(toClient[c]))
         /\ lastError'[c] = ProtocolError
         /\ readyState'[c] = "OPEN"
         /\ connectionStatus'[c] = "connected"
         /\ c \in wssClients']_vars

(***************************************************************************)
(* C32  Unrecognized message types are discarded silently: when a client   *)
(* handles a JSON object whose type is none of init, incidentAdded,        *)
(* incidentUpdated, readingIntervalUpdated, error, its incidents, catalog, *)
(* readingIntervalMs, pending request and lastError stay as they were.     *)
(***************************************************************************)
C32_KnownTypes ==
  {"init", "incidentAdded", "incidentUpdated", "readingIntervalUpdated", "error"}

C32_HandlesUnrecognized(c) ==
  /\ readyState[c] = "OPEN"
  /\ readyState'[c] = "OPEN"
  /\ toClient[c] # <<>>
  /\ toClient'[c] = Tail(toClient[c])
  /\ ~IsRaw(Head(toClient[c]))
  /\ Head(toClient[c]).type \notin C32_KnownTypes

C32_ClientStateKept(c) ==
  /\ localIncidents'[c] = localIncidents[c]
  /\ catalog'[c] = catalog[c]
  /\ clientIntervalMs'[c] = clientIntervalMs[c]
  /\ pendingIntervalRef'[c] = pendingIntervalRef[c]
  /\ lastError'[c] = lastError[c]

C32_UnrecognizedDiscarded ==
  [][\A c \in Clients : C32_HandlesUnrecognized(c) => C32_ClientStateKept(c)]_vars

(***************************************************************************)
(* C33  Non-JSON payloads are dropped silently at both ends: when the      *)
(* server handles a non-JSON frame nothing is sent to any socket and the   *)
(* server's state stays as it was; when a client handles a non-JSON frame  *)
(* its incidents, catalog, readingIntervalMs, pending request and          *)
(* lastError stay as they were.                                            *)
(***************************************************************************)
C33_ServerHandlesNonJson(c) == Consumed(c) /\ ~Head(toServer[c]).json

C33_ClientHandlesNonJson(c) ==
  /\ readyState[c] = "OPEN"
  /\ readyState'[c] = "OPEN"
  /\ toClient[c] # <<>>
  /\ toClient'[c] = Tail(toClient[c])
  /\ IsRaw(Head(toClient[c]))

C33_NonJsonDropped ==
  [][\A c \in Clients :
       /\ C33_ServerHandlesNonJson(c) =>
            /\ serverVars' = serverVars
            /\ toClient' = toClient
            /\ wssClients' = wssClients
       /\ C33_ClientHandlesNonJson(c) =>
            /\ C32_ClientStateKept(c)
            /\ connectionStatus'[c] = connectionStatus[c]]_vars

\* both clients took their snapshot and one of them then took a frame that was
\* not JSON: every interval request is still waiting at the server with its timer
\* armed, nothing waits at a client, no error is shown, nothing else has moved
C33_Witness ==
  /\ events = MaxEvents
  /\ wssClients = Clients
  /\ incidents = SeedIncidents
  /\ \A c \in Clients :
       /\ readyState[c] = "OPEN"
       /\ toClient[c] = <<>>
       /\ Len(toServer[c]) = 1
       /\ Head(toServer[c]).json
       /\ timeoutArmed[c] # {}
       /\ pendingIntervalRef[c] = ClientInitialIntervalMs
       /\ clientIntervalMs[c] = ClientInitialIntervalMs
       /\ lastError[c] = NoError
       /\ localIncidents[c] = SeedIncidents
       /\ catalog[c] = ServerCatalog

(***************************************************************************)
(* C34  Request on connect and on change: when the socket opens, and on    *)
(* every change of the client's readingIntervalMs made by the user while   *)
(* the socket is open, the client sends exactly one setReadingInterval     *)
(* carrying its current local interval, records that value as pending and  *)
(* arms the wait timer.                                                    *)
(***************************************************************************)
C34_SocketOpens(c) == readyState[c] = "CONNECTING" /\ readyState'[c] = "OPEN"

C34_UserChanges(c) ==
  /\ readyState[c] = "OPEN"
  /\ readyState'[c] = "OPEN"
  /\ events' = events + 1
  /\ clientIntervalMs'[c] # clientIntervalMs[c]

C34_RequestsCurrent(c) ==
  /\ toServer'[c] =
       Append(toServer[c], JsonFrame([type |-> "setReadingInterval",
                                      intervalMs |-> clientIntervalMs'[c]]))
  /\ pendingIntervalRef'[c] = clientIntervalMs'[c]
  /\ timeoutArmed'[c] # {}

C34_RequestOnConnectAndChange ==
  [][\A c \in Clients :
       (C34_SocketOpens(c) \/ C34_UserChanges(c)) => C34_RequestsCurrent(c)]_vars

(***************************************************************************)
(* C35  One wait timer per client: in every reachable state a client has   *)
(* at most one interval-ack timeout armed, and an armed timeout is the one  *)
(* the latest request put in intervalTimeoutRef: a request clears the       *)
(* timeout armed before it, so only the most recent request's timer can     *)
(* raise the 'not confirmed' warning.                                       *)
(***************************************************************************)
C35_OneWaitTimer ==
  \A c \in Clients :
    /\ Cardinality(timeoutArmed[c]) <= 1
    /\ timeoutArmed[c] \subseteq {intervalTimeoutRef[c]}

\* a client that requested twice without an ack in between: both requests wait at
\* the server and one timeout is armed
C35_Witness ==
  \E c \in Clients :
    /\ readyState[c] = "OPEN"
    /\ Len(toServer[c]) = 2
    /\ \A i \in 1..2 : toServer[c][i].json /\ toServer[c][i].value.type = "setReadingInterval"
    /\ pendingIntervalRef[c] = toServer[c][2].value.intervalMs
    /\ Cardinality(timeoutArmed[c]) = 1

(***************************************************************************)
(* C36  Interval convergence: whenever no frame is in flight in either     *)
(* direction, the readingIntervalMs of every connected client with an open *)
(* socket equals the server's readingIntervalMs, intervals selected before *)
(* the socket opened included.                                             *)
(***************************************************************************)
C36_IntervalConvergence ==
  Quiescent =>
    \A c \in wssClients :
      readyState[c] = "OPEN" => clientIntervalMs[c] = readingIntervalMs

(***************************************************************************)
(* The interval protocol on its own: one client has been accepted by the   *)
(* server and its snapshot is on the way, the others are still to be       *)
(* accepted, and each user may have selected an interval while the socket  *)
(* was still connecting.                                                   *)
(***************************************************************************)
AcceptedInit ==
  /\ incidents = SeedIncidents
  /\ localIncidents = [c \in Clients |-> <<>>]
  /\ readingIntervalMs = DEFAULT_READING_INTERVAL_MS
  /\ readingIntervalId = 1
  /\ timers = {[id |-> 1, period |-> DEFAULT_READING_INTERVAL_MS]}
  /\ clock = Len(SeedIncidents) * MAX_READINGS
  /\ wssClients \in {{c} : c \in Clients}
  /\ toClient = [c \in Clients |->
       IF c \in wssClients THEN <<InitMsg(SeedIncidents)>> ELSE <<>>]
  /\ toServer = [c \in Clients |-> <<>>]
  /\ readyState = [c \in Clients |-> "CONNECTING"]
  /\ connectionStatus = [c \in Clients |-> "disconnected"]
  /\ catalog = [c \in Clients |-> emptyCatalog]
  /\ clientIntervalMs \in [Clients -> IntervalChoices]
  /\ lastError = [c \in Clients |-> NoError]
  /\ pendingIntervalRef = [c \in Clients |-> Null]
  /\ intervalTimeoutRef = [c \in Clients |-> Null]
  /\ timeoutArmed = [c \in Clients |-> {}]
  /\ suppressIntervalRequestRef = [c \in Clients |-> FALSE]
  /\ page = [c \in Clients |-> NotRendered]
  /\ initsSent = [c \in Clients |-> IF c \in wssClients THEN 1 ELSE 0]
  /\ firstSent = [c \in Clients |-> IF c \in wssClients THEN "init" ELSE "none"]
  /\ tickAppended = {}
  /\ lostRequest = [c \in Clients |-> FALSE]
  /\ events = 0

IntervalNext ==
  \/ \E c \in Clients : ServerAccept(c)
  \/ \E c \in Clients : ClientOpen(c)
  \/ \E c \in Clients : ClientInit(c)
  \/ \E c \in Clients, v \in IntervalChoices : UserSetInterval(c, v)
  \/ \E c \in Clients : ServerSetReadingInterval(c)
  \/ \E c \in Clients : ClientReadingIntervalUpdated(c)

IntervalSpec == AcceptedInit /\ [][IntervalNext]_vars

(***************************************************************************)
(* C37  The suppress flag never swallows a user request: whenever the user *)
(* changes readingIntervalMs to a new value while the socket is open, a    *)
(* setReadingInterval for that value is sent, whatever                     *)
(* readingIntervalUpdated messages were handled before.                    *)
(***************************************************************************)
C37_RequestSent(c) ==
  /\ Len(toServer'[c]) = Len(toServer[c]) + 1
  /\ toServer'[c][Len(toServer'[c])] =
       JsonFrame([type |-> "setReadingInterval", intervalMs |-> clientIntervalMs'[c]])

C37_NeverSwallowed ==
  [][\A c \in Clients : C34_UserChanges(c) => C37_RequestSent(c)]_vars

(***************************************************************************)
(* C38  Sends are gated on an open socket: while a client's socket is not  *)
(* OPEN nothing is written to it, no request becomes pending and no        *)
(* timeout is armed; updateIncident applies the update to the local list   *)
(* whatever the socket's state and writes exactly one updateIncident when  *)
(* the socket is OPEN and nothing otherwise; sendIncident on an OPEN       *)
(* socket writes exactly one addIncident and leaves the local list alone.  *)
(***************************************************************************)
C38_NotOpen(c) == readyState[c] # "OPEN" /\ readyState'[c] # "OPEN"

C38_NothingSent(c) ==
  /\ toServer'[c] = toServer[c] \/ toServer'[c] = <<>>
  /\ pendingIntervalRef'[c] \in {pendingIntervalRef[c], Null}
  /\ timeoutArmed'[c] \subseteq timeoutArmed[c]

C38_Updated(c, id, target) ==
  Dropped(localIncidents[c][FindIndex(localIncidents[c], id)], target)

C38_UpdateApplied(c, id, target) ==
  /\ localIncidents'[c] =
       incidentsReducer(localIncidents[c],
                        [type |-> "update", incident |-> C38_Updated(c, id, target)])
  /\ toServer'[c] =
       IF readyState[c] = "OPEN"
         THEN Append(toServer[c], JsonFrame([type |-> "updateIncident",
                                             incident |-> C38_Updated(c, id, target)]))
         ELSE toServer[c]

C38_AddSent(c, incident) ==
  /\ localIncidents'[c] = localIncidents[c]
  /\ toServer'[c] =
       Append(toServer[c], JsonFrame([type |-> "addIncident", incident |-> incident]))

C38_SendsGated ==
  [][\A c \in Clients :
       /\ C38_NotOpen(c) => C38_NothingSent(c)
       /\ \A id \in DragIds, target \in DropTargets :
            UserDropIncident(c, id, target) => C38_UpdateApplied(c, id, target)
       /\ \A incident \in SendInputs :
            UserSendIncident(c, incident) => C38_AddSent(c, incident)]_vars

\* a client whose socket closed moved an incident: its list differs from the
\* store, which nothing has changed, and nothing waits on its socket
C38_Witness ==
  \E c \in Clients :
    /\ readyState[c] = "CLOSED"
    /\ toServer[c] = <<>>
    /\ incidents = SeedIncidents
    /\ Len(localIncidents[c]) = Len(SeedIncidents)
    /\ localIncidents[c] # SeedIncidents

(***************************************************************************)
(* C39  An interval ack clears whatever error is shown: whenever a client  *)
(* handles a readingIntervalUpdated that matches its pending request, or   *)
(* one that arrives with no request pending, its lastError is null after   *)
(* the step, whatever it was before.                                       *)
(***************************************************************************)
C39_HandlesAck(c) ==
  /\ Received(c, "readingIntervalUpdated")
  /\ ServerMessageSchema(Head(toClient[c]))
  /\ \/ pendingIntervalRef[c] = Null
     \/ Head(toClient[c]).intervalMs = pendingIntervalRef[c]

C39_AckClearsError ==
  [][\A c \in Clients : C39_HandlesAck(c) => lastError'[c] = NoError]_vars

\* a client that handled the acks of two requests, the last one its own change of
\* the interval: nothing is in flight, nothing is pending, the interval is the
\* server's and no error is shown
C39_Witness ==
  \E c \in Clients :
    /\ readyState[c] = "OPEN"
    /\ events = MaxEvents
    /\ toClient[c] = <<>>
    /\ toServer[c] = <<>>
    /\ readingIntervalId = 3
    /\ readingIntervalMs # DEFAULT_READING_INTERVAL_MS
    /\ clientIntervalMs[c] = readingIntervalMs
    /\ pendingIntervalRef[c] = Null
    /\ lastError[c] = NoError
    /\ incidents = SeedIncidents

(***************************************************************************)
(* C40  Buckets partition the filtered incidents: on every rendered page   *)
(* the lists for 'new', 'active' and 'completed' have no incident in       *)
(* common, each is a sub-sequence of the hook's list in its order, and     *)
(* every incident of the list that passes the filters and has stateId OPEN *)
(* or CLOSED is in exactly one of them.                                    *)
(***************************************************************************)
C40_SubSeq(sub, list) ==
  \E f \in [1..Len(sub) -> 1..Len(list)] :
    /\ \A j, k \in 1..Len(sub) : j < k => f[j] < f[k]
    /\ \A k \in 1..Len(sub) : list[f[k]] = sub[k]

C40_Buckets(p) == <<p.filteredNew, p.filteredActive, p.filteredCompleted>>

C40_Passing(list, p) ==
  {i \in 1..Len(list) :
     /\ C24_PassesFilters(list[i], p)
     /\ list[i].stateId \in {"OPEN", "CLOSED"}}

C40_Partition ==
  \A c \in Clients :
    page[c].rendered =>
      LET p == page[c]
          list == localIncidents[c]
          buckets == C40_Buckets(p)
      IN  /\ \A a, b \in 1..3 : a # b => Range(buckets[a]) \cap Range(buckets[b]) = {}
          /\ \A a \in 1..3 : C40_SubSeq(buckets[a], list)
          /\ \A i \in C40_Passing(list, p) :
               Cardinality({a \in 1..3 : list[i] \in Range(buckets[a])}) = 1
          /\ Len(buckets[1]) + Len(buckets[2]) + Len(buckets[3]) =
               Cardinality(C40_Passing(list, p))

\* a page rendered under an escalation filter and an incident type filter, with
\* one incident in the 'new' list and another in the 'active' list
C40_Witness ==
  \E c \in Clients :
    /\ page[c].rendered
    /\ page[c].selectedEscalation # ""
    /\ page[c].selectedIncidentType # ""
    /\ page[c].filteredNew # <<>>
    /\ page[c].filteredActive # <<>>

====
